---------------------------- MODULE Spec2Model ----------------------------
(***************************************************************************)
(* A model of the RADAR event-derivation pipeline (package radar): the     *)
(* ingest store, the heuristic and the LLM clusterer, the scorer and the   *)
(* pipeline orchestrator.  Timestamps are whole hours, 0 is the zero       *)
(* time.Time; scores are integers in millionths.                           *)
(***************************************************************************)
EXTENDS Integers, Sequences, FiniteSets, TLC

VARIABLES
    items,      \* IngestSource.items
    clock,      \* time.Now()
    uuidCount,  \* number of ids uuid.NewString() has handed out to the store
    live,       \* history: per id, the record the last Add stored, while unpruned
    lastOp,     \* the last store operation: its arguments and what it returned
    heur,       \* one HeuristicClusterer.BuildClusters call: receiver, argument, result
    llm,        \* one LLMClusterer.BuildClusters call: receiver, argument, reply, result
    cache,      \* the LLM cache: entries signature -> (clusters, expiresAt)
    cacheCall,  \* the caching LLMClusterer and its last BuildClusters call
    cacheHist,  \* history: per signature, its first successful derivation and the
                \* upstream calls made for it within CacheTTL of that derivation
    score,      \* one Scorer.ScoreClusters call: receiver, argument, built events, result
    pipe,       \* the Pipeline and its last Run: parameters, stage outputs, result
    http,       \* the Server: its configuration, its last request and response
    sim,        \* one comparison of two headlines by similarityScore
    dec,        \* one decodeNewsItems call: the file's records and the result
    conc        \* goroutines calling one IngestSource: heap, lock, program counters

storeVars == <<items, clock, uuidCount, live, lastOp>>

cacheVars == <<cache, cacheCall, cacheHist>>

extraVars == <<http, sim, dec, conc>>

notStoreVars == <<heur, llm, cacheVars, score, pipe, extraVars>>

notHeurVars == <<storeVars, llm, cacheVars, score, pipe, extraVars>>

notLLMVars == <<storeVars, heur, cacheVars, score, pipe, extraVars>>

notCacheVars == <<items, uuidCount, live, lastOp, heur, llm, score, pipe, extraVars>>

notScoreVars == <<storeVars, heur, llm, cacheVars, pipe, extraVars>>

notPipeVars == <<storeVars, heur, llm, cacheVars, score, extraVars>>

vars == <<items, clock, uuidCount, live, lastOp, heur, llm, cache, cacheCall, cacheHist,
          score, pipe, http, sim, dec, conc>>

-----------------------------------------------------------------------------
(* Bounds of the model *)

MaxStore == 2
MaxClock == 2
MaxInput == 3
MaxSize == 2

-----------------------------------------------------------------------------
(* Generic sequence helpers *)

Range(s) == {s[i] : i \in 1..Len(s)}

Count(s, x) == Cardinality({i \in 1..Len(s) : s[i] = x})

SameBag(s, t) ==
    /\ Len(s) = Len(t)
    /\ \A x \in Range(s) \cup Range(t) : Count(s, x) = Count(t, x)

Injections(n) == {p \in [1..n -> 1..n] : \A i, j \in 1..n : p[i] = p[j] => i = j}

Orderings(s) == {[i \in 1..Len(s) |-> s[p[i]]] : p \in Injections(Len(s))}

RECURSIVE SelectSeqBy(_, _)
SelectSeqBy(s, keep) ==
    IF s = <<>> THEN <<>>
    ELSE IF Head(s) \in keep
         THEN <<Head(s)>> \o SelectSeqBy(Tail(s), keep)
         ELSE SelectSeqBy(Tail(s), keep)

\* The subsequence of s at the positions in idx.
RECURSIVE SelectSeqAtFrom(_, _, _)
SelectSeqAtFrom(s, idx, k) ==
    IF k > Len(s) THEN <<>>
    ELSE IF k \in idx THEN <<s[k]>> \o SelectSeqAtFrom(s, idx, k + 1)
    ELSE SelectSeqAtFrom(s, idx, k + 1)

SelectSeqAt(s, idx) == SelectSeqAtFrom(s, idx, 1)

Min(a, b) == IF a <= b THEN a ELSE b

Max(a, b) == IF a >= b THEN a ELSE b

-----------------------------------------------------------------------------
(* strings.ToUpper / strings.ToLower / strings.TrimSpace over the strings   *)
(* the model uses                                                          *)

ToUpper(s) ==
    CASE s = "cma" -> "CMA"
      [] s = "Cma" -> "CMA"
      [] s = "xyz" -> "XYZ"
      [] s = "en"  -> "EN"
      [] s = "En"  -> "EN"
      [] s = "ru"  -> "RU"
      [] s = "acme" -> "ACME"
      [] s = "Acme" -> "ACME"
      [] s = " Acme " -> " ACME "
      [] s = "bank" -> "BANK"
      [] s = "Bank" -> "BANK"
      [] OTHER -> s

ToLower(s) ==
    CASE s = "CMA" -> "cma"
      [] s = "Cma" -> "cma"
      [] s = "XYZ" -> "xyz"
      [] s = "EN"  -> "en"
      [] s = "En"  -> "en"
      [] s = "RU"  -> "ru"
      [] s = "ACME" -> "acme"
      [] s = "Acme" -> "acme"
      [] s = " Acme " -> " acme "
      [] s = "BANK" -> "bank"
      [] s = "Bank" -> "bank"
      [] s = "Fed"  -> "fed"
      [] s = "Cuts" -> "cuts"
      [] s = "Rates" -> "rates"
      [] s = "Reuters" -> "reuters"
      [] s = "Bloomberg" -> "bloomberg"
      [] OTHER -> s

-----------------------------------------------------------------------------
(* NewsItem *)

NewsItem(id, headline, source, url, lang, ts, tickers, entities, sentiment, tag) ==
    [ID |-> id, Headline |-> headline, Summary |-> "", Source |-> source,
     URL |-> url, Language |-> lang, PublishedAt |-> ts, Tickers |-> tickers,
     Entities |-> entities, Sentiment |-> sentiment, ImportanceTag |-> tag]

IsSortedByTime(s) == \A i \in 1..(Len(s) - 1) : s[i].PublishedAt <= s[i + 1].PublishedAt

\* sort.Slice(s, by PublishedAt.Before): the result is some ordering of s by
\* non-decreasing timestamp; sort.Slice is not stable, so ties land in any order.
SortSliceByTime(s) == {t \in Orderings(s) : IsSortedByTime(t)}

-----------------------------------------------------------------------------
(* IngestSource *)

UserIds == {"a", "b"}

Uuids == <<"u1">>

StoreHeadlines == {<<"one">>, <<"two">>}

\* What a caller may hand to Add: an id of its own, an id Add returned earlier,
\* or none; a timestamp or the zero time.
AddInputs ==
    {NewsItem(id, h, "ingest", "http://x", "en", ts, <<>>, <<>>, 0, "") :
        id \in UserIds \cup {""} \cup {Uuids[k] : k \in 1..uuidCount},
        h \in StoreHeadlines,
        ts \in 0..MaxClock}

NoItem == NewsItem("", <<>>, "", "", "", 0, <<>>, <<>>, 0, "")

StoreOp(op, item, from, to, ctxDone, ret, err, removed, replaced) ==
    [op |-> op, item |-> item, from |-> from, to |-> to, ctxDone |-> ctxDone,
     ret |-> ret, err |-> err, removed |-> removed, replaced |-> replaced]

IndexOfID(s, id) ==
    IF \E i \in 1..Len(s) : s[i].ID = id
    THEN CHOOSE i \in 1..Len(s) : s[i].ID = id /\ \A j \in 1..(i - 1) : s[j].ID # id
    ELSE 0

\* The record Add stores for the item: a fresh id when it has none, the
\* current time when it has no timestamp.
AddDefaults(item) ==
    [item EXCEPT !.ID = IF item.ID = "" THEN Uuids[uuidCount + 1] ELSE item.ID,
                 !.PublishedAt = IF item.PublishedAt = 0 THEN clock
                                 ELSE item.PublishedAt]

AddAlwaysAppends(s, item) == Append(s, item)

AddKeepsOldRecord(s, item) == IF IndexOfID(s, item.ID) # 0 THEN s ELSE Append(s, item)

\* The store after Add: replace in place the first record with the id, or append.
AddToItems(s, item) ==
    IF IndexOfID(s, item.ID) # 0
    THEN [s EXCEPT ![IndexOfID(s, item.ID)] = item]
    ELSE Append(s, item)

Add(item) ==
    /\ item.ID = "" => uuidCount < Len(Uuids)
    /\ LET stored == AddDefaults(item)
       IN /\ IndexOfID(items, stored.ID) = 0 => Len(items) < MaxStore
          /\ items' = AddToItems(items, stored)
          /\ uuidCount' = IF item.ID = "" THEN uuidCount + 1 ELSE uuidCount
          /\ live' = {r \in live : r.ID # stored.ID} \cup {stored}
          /\ lastOp' = StoreOp("Add", stored, 0, 0, FALSE, <<>>, FALSE, 0,
                               IndexOfID(items, stored.ID) # 0)
    /\ UNCHANGED <<clock, notStoreVars>>

InWindowHalfOpen(item, from, to) == from <= item.PublishedAt /\ item.PublishedAt < to

\* Fetch keeps an item unless it is Before(from) or After(to).
InWindow(item, from, to) == ~(item.PublishedAt < from \/ item.PublishedAt > to)

FetchFilter(s, from, to) == SelectSeqBy(s, {x \in Range(s) : InWindow(x, from, to)})

Fetch(ctxDone, from, to) ==
    /\ IF ctxDone
       THEN lastOp' = StoreOp("Fetch", NoItem, from, to, TRUE, <<>>, TRUE, 0, FALSE)
       ELSE \E out \in SortSliceByTime(FetchFilter(items, from, to)) :
               lastOp' = StoreOp("Fetch", NoItem, from, to, FALSE, out, FALSE, 0, FALSE)
    /\ UNCHANGED <<items, clock, uuidCount, live, notStoreVars>>

PruneFilterInclusive(s, ts) == SelectSeqBy(s, {x \in Range(s) : x.PublishedAt > ts})

PruneFilter(s, ts) == SelectSeqBy(s, {x \in Range(s) : ~(x.PublishedAt < ts)})

PruneOlderThan(ts) ==
    /\ items' = PruneFilter(items, ts)
    /\ live' = {r \in live : ~(r.PublishedAt < ts)}
    /\ lastOp' = StoreOp("Prune", NoItem, ts, 0, FALSE, <<>>, FALSE,
                         Len(items) - Len(PruneFilter(items, ts)), FALSE)
    /\ UNCHANGED <<clock, uuidCount, notStoreVars>>

\* Wall-clock time passes between calls.
Tick ==
    /\ clock < MaxClock
    /\ clock' = clock + 1
    /\ lastOp' = StoreOp("Tick", NoItem, 0, 0, FALSE, <<>>, FALSE, 0, FALSE)
    /\ UNCHANGED <<items, uuidCount, live, notStoreVars>>

\* NewIngestSource: an empty store.
StoreNew ==
    /\ items = <<>>
    /\ clock = 1
    /\ uuidCount = 0
    /\ live = {}
    /\ lastOp = StoreOp("New", NoItem, 0, 0, FALSE, <<>>, FALSE, 0, FALSE)

\* No call to BuildClusters is under way.
HeurIdle == heur = [called |-> FALSE]

\* No call to LLMClusterer.BuildClusters is under way.
LLMIdle == llm = [called |-> FALSE]

\* No caching LLMClusterer is in use.
CacheIdle ==
    /\ cache = {}
    /\ cacheCall = [called |-> FALSE]
    /\ cacheHist = {}

\* No call to Scorer.ScoreClusters is under way.
ScoreIdle == score = [called |-> FALSE]

\* No Pipeline is in use.
PipeIdle == pipe = [called |-> FALSE]

\* No Server, no similarityScore call, no decodeNewsItems call and no
\* goroutines are in use.
ExtraIdle ==
    /\ http = [called |-> FALSE]
    /\ sim = [called |-> FALSE]
    /\ dec = [called |-> FALSE]
    /\ conc = [called |-> FALSE]

InitStore ==
    StoreNew /\ HeurIdle /\ LLMIdle /\ CacheIdle /\ ScoreIdle /\ PipeIdle /\ ExtraIdle

NextStore ==
    \/ \E item \in AddInputs : Add(item)
    \/ \E ctxDone \in BOOLEAN, from \in 1..MaxClock, to \in 1..MaxClock :
          Fetch(ctxDone, from, to)
    \/ \E ts \in 1..MaxClock : PruneOlderThan(ts)
    \/ Tick

SpecStore == InitStore /\ [][NextStore]_vars

-----------------------------------------------------------------------------
(* Cluster and the heuristic clusterer *)

NoAnnotations == [Present |-> FALSE]

Cluster(id, members, primary, start, end, ann) ==
    [ID |-> id, Items |-> members, Primary |-> primary, StartTime |-> start,
     EndTime |-> end, Annotations |-> ann]

\* len(p) of the words of the model's headlines.
ByteLen(w) ==
    CASE w \in {"of", "to", "US"} -> 2
      [] w \in {"a"} -> 1
      [] OTHER -> 4

\* A headline is held as the words the replacer and strings.Fields leave;
\* tokenize lowercases them and drops those of at most two bytes.
RECURSIVE tokenize(_)
tokenize(h) ==
    IF h = <<>> THEN <<>>
    ELSE IF ByteLen(ToLower(Head(h))) <= 2
         THEN tokenize(Tail(h))
         ELSE <<ToLower(Head(h))>> \o tokenize(Tail(h))

\* similarityScore(a, b) >= threshold, the threshold in hundredths: the score
\* is |A \cap B| / |A \cup B| over the token sets, 0 when either is empty.
similarityAtLeast(a, b, threshold) ==
    LET setA == Range(tokenize(a))
        setB == Range(tokenize(b))
        intersection == Cardinality(setA \cap setB)
        union == Cardinality(setA) + Cardinality(setB) - intersection
    IN IF setA = {} \/ setB = {} THEN 0 >= threshold
       ELSE intersection * 100 >= threshold * union

sharesToken(a, b) ==
    /\ Len(a) # 0
    /\ Len(b) # 0
    /\ \E i \in 1..Len(a), j \in 1..Len(b) : ToUpper(a[i]) = ToUpper(b[j])

areRelated(a, b, threshold) ==
    \/ sharesToken(a.Tickers, b.Tickers)
    \/ sharesToken(a.Entities, b.Entities)
    \/ similarityAtLeast(a.Headline, b.Headline, threshold)

clusterContainsRelated(cluster, candidate, threshold) ==
    \E i \in 1..Len(cluster.Items) : areRelated(cluster.Items[i], candidate, threshold)

withinWindowExclusive(start, end, ts, window) ==
    /\ start - window < ts
    /\ ts < end + window

withinWindow(start, end, ts, window) ==
    /\ ~(ts < start - window)
    /\ ~(ts > end + window)

ClusterFullOffByOne(cluster, c) == Len(cluster.Items) > c.MaxClusterSize

\* The size test that makes the scan skip a cluster.
ClusterFull(cluster, c) == Len(cluster.Items) >= c.MaxClusterSize

Accepts(cluster, item, c) ==
    /\ ~ClusterFull(cluster, c)
    /\ withinWindow(cluster.StartTime, cluster.EndTime, item.PublishedAt, c.TimeWindow)
    /\ clusterContainsRelated(cluster, item, c.SimilarityThreshold)

\* The index of the first cluster, in creation order, that takes the item; 0 if none.
FirstAccepting(clusters, item, c) ==
    IF \E i \in 1..Len(clusters) : Accepts(clusters[i], item, c)
    THEN CHOOSE i \in 1..Len(clusters) :
            /\ Accepts(clusters[i], item, c)
            /\ \A j \in 1..(i - 1) : ~Accepts(clusters[j], item, c)
    ELSE 0

JoinCluster(cluster, item) ==
    [cluster EXCEPT
        !.Items = Append(cluster.Items, item),
        !.StartTime = IF item.PublishedAt < cluster.StartTime
                      THEN item.PublishedAt ELSE cluster.StartTime,
        !.EndTime = IF item.PublishedAt > cluster.EndTime
                    THEN item.PublishedAt ELSE cluster.EndTime,
        !.Primary = IF item.PublishedAt < cluster.Primary.PublishedAt
                    THEN item ELSE cluster.Primary]

NewCluster(id, item) ==
    Cluster(id, <<item>>, item, item.PublishedAt, item.PublishedAt, NoAnnotations)

\* The loop over the sorted items; ids[k] is the uuid of the k-th cluster opened.
RECURSIVE HeuristicLoop(_, _, _, _)
HeuristicLoop(sorted, clusters, c, ids) ==
    IF sorted = <<>> THEN clusters
    ELSE LET item == Head(sorted)
             idx == FirstAccepting(clusters, item, c)
         IN IF idx # 0
            THEN HeuristicLoop(Tail(sorted),
                               [clusters EXCEPT ![idx] = JoinCluster(clusters[idx], item)],
                               c, ids)
            ELSE HeuristicLoop(Tail(sorted),
                               Append(clusters, NewCluster(ids[Len(clusters) + 1], item)),
                               c, ids)

\* The results HeuristicClusterer.BuildClusters may return for the input: one
\* per order sort.Slice may leave equal timestamps in.
HeuristicBuildClusters(c, input, ids) ==
    IF Len(input) = 0 THEN {<<>>}
    ELSE {HeuristicLoop(sorted, <<>>, c, ids) : sorted \in SortSliceByTime(input)}

DefaultTimeWindow == 6
DefaultThreshold == 45
DefaultMaxClusterSize == 12

NewHeuristicClusterer(timeWindow, threshold) ==
    [TimeWindow |-> IF timeWindow = 0 THEN DefaultTimeWindow ELSE timeWindow,
     SimilarityThreshold |-> IF threshold <= 0 \/ threshold > 100
                             THEN DefaultThreshold ELSE threshold,
     MaxClusterSize |-> DefaultMaxClusterSize]

\* HeuristicClusterer values: what NewHeuristicClusterer builds and what a
\* struct literal can hold.
HeuristicConfigs ==
    {NewHeuristicClusterer(w, t) : w \in {0, 1}, t \in {0, 100}}
    \cup [TimeWindow : {0, 1}, SimilarityThreshold : {45, 100},
          MaxClusterSize : 0..MaxSize]

ClusterUuids == <<"c1", "c2", "c3", "c4", "c5", "c6">>

\* uuid.NewString() hands out distinct ids in no particular order: the n ids of
\* a call are drawn in increasing or in decreasing order.
UuidSeqs(n) == {[k \in 1..n |-> ClusterUuids[k]], [k \in 1..n |-> ClusterUuids[n + 1 - k]]}

HeurPool ==
    {NewsItem("n1", <<"Fed", "Cuts", "Rates">>, "Reuters", "http://1", "en", 1,
              <<"cma">>, <<>>, 0, ""),
     NewsItem("n2", <<"Bank", "of", "Acme">>, "Bloomberg", "http://2", "en", 1,
              <<"CMA">>, <<"Acme">>, 0, ""),
     NewsItem("n3", <<"fed", "cuts", "rates">>, "ingest", "http://3", "ru", 2,
              <<>>, <<>>, 0, ""),
     NewsItem("n4", <<"to", "a">>, "ingest", "http://4", "en", 3,
              <<"XYZ">>, <<"acme">>, 0, "")}

SeqsUpTo(S, n) == UNION {[1..k -> S] : k \in 0..n}

HeurCall(c, input, called, out) ==
    [called |-> called, cfg |-> c, input |-> input, out |-> out]

BuildClustersHeuristic ==
    /\ ~HeurIdle
    /\ ~heur.called
    /\ \E ids \in UuidSeqs(Len(heur.input)) :
          \E out \in HeuristicBuildClusters(heur.cfg, heur.input, ids) :
             heur' = HeurCall(heur.cfg, heur.input, TRUE, out)
    /\ UNCHANGED notHeurVars

\* A HeuristicClusterer and the items it is about to be called with.
HeurArmed ==
    \E c \in HeuristicConfigs, input \in SeqsUpTo(HeurPool, MaxInput) :
       heur = HeurCall(c, input, FALSE, <<>>)

-----------------------------------------------------------------------------
(* The LLM clusterer *)

MaxReply == 2
MaxTTL == 2

TrimSpace(s) ==
    CASE s = " " -> ""
      [] s = " Acme " -> "Acme"
      [] s = " acme " -> "acme"
      [] OTHER -> s

\* A ClusterEngine held in LLMClusterer.Fallback: none, the heuristic engine,
\* or an engine whose BuildClusters returns an error.
Fallbacks ==
    {[kind |-> "nil"], [kind |-> "failing"],
     [kind |-> "heuristic", cfg |-> NewHeuristicClusterer(0, 0)]}

LLMConfigs ==
    [Client : {"nil", "set"}, Model : {"", "m"}, MaxItems : {0, 1}, Fallback : Fallbacks]
    \ [Client : {"nil"}, Model : {""}, MaxItems : {0, 1}, Fallback : Fallbacks]

\* One element of the reply's "clusters" array, as json.Unmarshal decodes it.
Decoded(id, newsIDs, primary, summaryEN) ==
    [ID |-> id, NewsIDs |-> newsIDs, PrimaryNewsID |-> primary, SummaryEN |-> summaryEN]

DecodedPool ==
    {Decoded("ev1", <<"n2", "n1">>, "", ""),
     Decoded(" ", <<"n3", "zz">>, "n3", "sum"),
     Decoded("ev2", <<"n3", "n3", "n1">>, "zz", ""),
     Decoded("ev3", <<"zz">>, "", ""),
     Decoded("", <<"n3", "n1">>, "n2", "sum")}

\* The items LLMClusterer.BuildClusters is called with.
LLMPool == {x \in HeurPool : x.ID \in {"n1", "n2", "n3"}}

\* What the upstream does with one request: buildPrompt fails, ChatCompletion
\* fails, the response has no choices, the first choice has no {...}, the
\* {...} is not the expected JSON, or it decodes to a list of clusters.
Replies ==
    {[kind |-> k, clusters |-> <<>>] :
        k \in {"prompterr", "error", "nochoices", "nojson", "badjson"}}
    \cup {[kind |-> "json", clusters |-> d] : d \in SeqsUpTo(DecodedPool, MaxReply)}

HasID(s, id) == \E i \in 1..Len(s) : s[i].ID = id

\* itemByID[id]: the loop overwrites, so the last item with the id stays.
itemByID(s, id) ==
    s[CHOOSE i \in 1..Len(s) : s[i].ID = id /\ \A j \in (i + 1)..Len(s) : s[j].ID # id]

RECURSIVE clusterItemsKeepsUnknown(_, _)
clusterItemsKeepsUnknown(newsIDs, s) ==
    IF newsIDs = <<>> THEN <<>>
    ELSE IF HasID(s, Head(newsIDs))
         THEN <<itemByID(s, Head(newsIDs))>> \o clusterItemsKeepsUnknown(Tail(newsIDs), s)
         ELSE <<NewsItem(Head(newsIDs), <<>>, "", "", "", 0, <<>>, <<>>, 0, "")>>
              \o clusterItemsKeepsUnknown(Tail(newsIDs), s)

RECURSIVE clusterItems(_, _)
clusterItems(newsIDs, s) ==
    IF newsIDs = <<>> THEN <<>>
    ELSE IF HasID(s, Head(newsIDs))
         THEN <<itemByID(s, Head(newsIDs))>> \o clusterItems(Tail(newsIDs), s)
         ELSE clusterItems(Tail(newsIDs), s)

preferID(candidate, fallback) ==
    IF TrimSpace(candidate) # "" THEN TrimSpace(candidate) ELSE fallback

\* The primary: the first listed member, or the item primary_news_id names
\* when the input has it; it takes the LLM's summary when it has none.
parsePrimary(d, s) ==
    LET first == clusterItems(d.NewsIDs, s)[1]
        primary == IF d.PrimaryNewsID # "" /\ HasID(s, d.PrimaryNewsID)
                   THEN itemByID(s, d.PrimaryNewsID) ELSE first
    IN IF d.SummaryEN # "" /\ primary.Summary = ""
       THEN [primary EXCEPT !.Summary = d.SummaryEN] ELSE primary

Annotations(d) == [Present |-> TRUE, SummaryEN |-> d.SummaryEN]

parseClusterUnsorted(d, s) ==
    IF clusterItems(d.NewsIDs, s) = <<>> THEN {<<>>}
    ELSE {<<Cluster(preferID(d.ID, parsePrimary(d, s).ID), clusterItems(d.NewsIDs, s),
                    parsePrimary(d, s),
                    clusterItems(d.NewsIDs, s)[1].PublishedAt,
                    clusterItems(d.NewsIDs, s)[Len(clusterItems(d.NewsIDs, s))].PublishedAt,
                    Annotations(d))>>}

\* The clusters one decoded element may become (none when no id is known).
parseCluster(d, s) ==
    IF clusterItems(d.NewsIDs, s) = <<>> THEN {<<>>}
    ELSE {<<Cluster(preferID(d.ID, parsePrimary(d, s).ID), members, parsePrimary(d, s),
                    members[1].PublishedAt, members[Len(members)].PublishedAt,
                    Annotations(d))>> :
             members \in SortSliceByTime(clusterItems(d.NewsIDs, s))}

RECURSIVE parseClusters(_, _)
parseClusters(ds, s) ==
    IF ds = <<>> THEN {<<>>}
    ELSE {a \o b : a \in parseCluster(Head(ds), s), b \in parseClusters(Tail(ds), s)}

\* parseResponse: an error, or the clusters built from the decoded reply.
parseResponse(reply, s) ==
    IF reply.kind # "json" \/ Len(reply.clusters) = 0
    THEN {[err |-> TRUE, clusters |-> <<>>]}
    ELSE {[err |-> FALSE, clusters |-> cs] : cs \in parseClusters(reply.clusters, s)}

Truncate(s, maxItems) ==
    IF maxItems > 0 /\ Len(s) > maxItems THEN SubSeq(s, 1, maxItems) ELSE s

\* wraps: the errors the returned error reports, none when err is nil.
LLMResult(out, err, upstream, fbCalled, fbInput, fbOut) ==
    [out |-> out, err |-> err, upstream |-> upstream, fbCalled |-> fbCalled,
     fbInput |-> fbInput, fbOut |-> fbOut, wraps |-> {}]

FallbackGetsTruncated(c, s) == Truncate(s, c.MaxItems)

\* The items buildWithFallback hands to the fallback engine.
FallbackInput(c, s) == s

FallbackErrorDropsCause == {"fbErr"}

\* fmt.Errorf("llm fallback error: %v (original: %w)", fbErr, cause)
FallbackErrorWraps == {"fbErr", "cause"}

\* buildWithFallback: the fallback's clusters, its error wrapped, or the cause.
buildWithFallback(c, s, upstream, ids) ==
    CASE c.Fallback.kind = "nil" ->
            {[LLMResult(<<>>, "cause", upstream, FALSE, <<>>, <<>>)
                 EXCEPT !.wraps = {"cause"}]}
      [] c.Fallback.kind = "failing" ->
            {[LLMResult(<<>>, "fallback", upstream, TRUE, FallbackInput(c, s), <<>>)
                 EXCEPT !.wraps = FallbackErrorWraps]}
      [] c.Fallback.kind = "heuristic" ->
            {LLMResult(o, "", upstream, TRUE, FallbackInput(c, s), o) :
                o \in HeuristicBuildClusters(c.Fallback.cfg, FallbackInput(c, s), ids)}

NeverMisconfigured(c) == FALSE

\* c.Client == nil || c.Model == ""
Misconfigured(c) == c.Client = "nil" \/ c.Model = ""

\* The results LLMClusterer.BuildClusters may return.
LLMBuildClusters(c, s, reply, ids) ==
    IF Len(s) = 0 THEN {LLMResult(<<>>, "", 0, FALSE, <<>>, <<>>)}
    ELSE IF Misconfigured(c) THEN buildWithFallback(c, s, 0, ids)
    ELSE IF reply.kind = "prompterr" THEN buildWithFallback(c, s, 0, ids)
    ELSE IF reply.kind \in {"error", "nochoices"} THEN buildWithFallback(c, s, 1, ids)
    ELSE UNION {IF p.err \/ Len(p.clusters) = 0
                THEN buildWithFallback(c, s, 1, ids)
                ELSE {LLMResult(p.clusters, "", 1, FALSE, <<>>, <<>>)} :
                   p \in parseResponse(reply, s)}

LLMCall(c, input, reply, called, res) ==
    [called |-> called, cfg |-> c, input |-> input, reply |-> reply, res |-> res]

NoResult == LLMResult(<<>>, "", 0, FALSE, <<>>, <<>>)

NoReply == [kind |-> "none", clusters |-> <<>>]

BuildClustersLLM ==
    /\ ~LLMIdle
    /\ ~llm.called
    /\ \E reply \in Replies, ids \in UuidSeqs(Len(llm.input)) :
          \E res \in LLMBuildClusters(llm.cfg, llm.input, reply, ids) :
             llm' = LLMCall(llm.cfg, llm.input, reply, TRUE, res)
    /\ UNCHANGED notLLMVars

\* An LLMClusterer and the items it is about to be called with.
LLMArmed ==
    \E c \in LLMConfigs, input \in SeqsUpTo(LLMPool, MaxInput) :
       llm = LLMCall(c, input, NoReply, FALSE, NoResult)

\* One call of one of the two engines.
InitCluster ==
    /\ StoreNew
    /\ ExtraIdle
    /\ CacheIdle
    /\ ScoreIdle
    /\ PipeIdle
    /\ \/ HeurArmed /\ LLMIdle
       \/ HeurIdle /\ LLMArmed

NextCluster ==
    \/ BuildClustersHeuristic
    \/ BuildClustersLLM

SpecCluster == InitCluster /\ [][NextCluster]_vars

-----------------------------------------------------------------------------
(* The LLM clusterer's signature cache (LLMClusterer.CacheTTL) *)

\* The signature of the sorted view: the (id, url, timestamp) triples in
\* order, and the model name.
Signature(sorted, model) ==
    <<model, [i \in 1..Len(sorted) |->
                <<sorted[i].ID, sorted[i].URL, sorted[i].PublishedAt>>]>>

CacheEntry(sig, clusters, expiresAt) ==
    [sig |-> sig, clusters |-> clusters, expiresAt |-> expiresAt]

CacheNeverFresh(e, now) == FALSE

\* An entry serves a lookup while now < expiresAt.
CacheFresh(e, now) == now < e.expiresAt

CacheHit(c, sig, now) == \E e \in c : e.sig = sig /\ CacheFresh(e, now)

CacheGet(c, sig, now) == (CHOOSE e \in c : e.sig = sig /\ CacheFresh(e, now)).clusters

\* Expired entries are discarded on access.
CacheEvict(c, now) == {e \in c : CacheFresh(e, now)}

CacheInsert(c, sig, clusters, now, ttl) ==
    {e \in c : e.sig # sig} \cup {CacheEntry(sig, clusters, now + ttl)}

PoolItem(id) == CHOOSE x \in HeurPool : x.ID = id

CacheInputs ==
    {<<PoolItem("n1"), PoolItem("n3")>>,
     <<PoolItem("n3"), PoolItem("n1")>>,
     <<PoolItem("n1"), PoolItem("n2")>>}

CacheReplies ==
    {[kind |-> "error", clusters |-> <<>>],
     [kind |-> "json", clusters |-> <<Decoded("ev1", <<"n2", "n1">>, "", "")>>]}

CacheConfigs ==
    [Client : {"set"}, Model : {"m"}, MaxItems : {0, 1},
     Fallback : {[kind |-> "heuristic", cfg |-> NewHeuristicClusterer(0, 0)]},
     CacheTTL : 0..MaxTTL]

CachedCall(c, called, sig, hit, upstream, err, at) ==
    [called |-> called, cfg |-> c, sig |-> sig, hit |-> hit, upstream |-> upstream,
     err |-> err, at |-> at]

\* The history after a call for sig at time now that made `upstream` calls and
\* derived clusters from the LLM or not.
HistAfter(h, sig, now, ttl, upstream, derived) ==
    LET known == \E r \in h : r.sig = sig
        old == IF known THEN CHOOSE r \in h : r.sig = sig
               ELSE [sig |-> sig, firstAt |-> now, upstream |-> 0]
    IN IF known
       THEN IF now < old.firstAt + ttl
            THEN (h \ {old}) \cup {[old EXCEPT !.upstream = old.upstream + upstream]}
            ELSE h
       ELSE IF derived /\ ttl > 0
            THEN h \cup {[old EXCEPT !.upstream = upstream]}
            ELSE h

\* BuildClusters of the caching clusterer: an unexpired entry for the
\* signature of the sorted, truncated view is served without an upstream
\* call; otherwise the LLM path runs and a successful derivation is stored
\* with expiry now + CacheTTL.
BuildClustersCached(input, reply) ==
    /\ "cfg" \in DOMAIN cacheCall
    /\ LET c == cacheCall.cfg
       IN \E sorted \in SortSliceByTime(Truncate(input, c.MaxItems)),
             ids \in UuidSeqs(Len(input)) :
             LET sig == Signature(sorted, c.Model)
                 kept == CacheEvict(cache, clock)
             IN IF CacheHit(cache, sig, clock)
                THEN /\ cache' = kept
                     /\ cacheCall' = CachedCall(c, TRUE, sig, TRUE, 0, "", clock)
                     /\ cacheHist' = HistAfter(cacheHist, sig, clock, c.CacheTTL, 0, FALSE)
                ELSE \E res \in LLMBuildClusters(c, input, reply, ids) :
                        LET derived == res.err = "" /\ ~res.fbCalled
                        IN /\ cache' = IF derived
                                       THEN CacheInsert(kept, sig, res.out, clock, c.CacheTTL)
                                       ELSE kept
                           /\ cacheCall' = CachedCall(c, TRUE, sig, FALSE, res.upstream,
                                                      res.err, clock)
                           /\ cacheHist' = HistAfter(cacheHist, sig, clock, c.CacheTTL,
                                                     res.upstream, derived)
    /\ UNCHANGED <<clock, notCacheVars>>

\* Time passes between calls.
CacheTick ==
    /\ clock < MaxTTL + 1
    /\ clock' = clock + 1
    /\ UNCHANGED <<cacheVars, notCacheVars>>

InitCache ==
    /\ StoreNew
    /\ ExtraIdle
    /\ HeurIdle
    /\ LLMIdle
    /\ ScoreIdle
    /\ PipeIdle
    /\ cache = {}
    /\ cacheHist = {}
    /\ \E c \in CacheConfigs :
          cacheCall = CachedCall(c, FALSE, <<>>, FALSE, 0, "", 0)

NextCache ==
    \/ \E input \in CacheInputs, reply \in CacheReplies :
          BuildClustersCached(input, reply)
    \/ CacheTick

SpecCache == InitCache /\ [][NextCache]_vars

-----------------------------------------------------------------------------
(* The scorer.  A float64 score v is held as the integer v * 10^6; a        *)
(* quotient is cut to that resolution.                                      *)

MaxScored == 2

\* 1.0
Unit == 1000000

\* a / b
Div(a, b) == IF a >= 0 THEN a \div b ELSE -((-a) \div b)

Abs(v) == IF v < 0 THEN -v ELSE v

RECURSIVE Sum(_)
Sum(s) == IF s = <<>> THEN 0 ELSE Head(s) + Sum(Tail(s))

RECURSIVE Flatten(_)
Flatten(ss) == IF ss = <<>> THEN <<>> ELSE Head(ss) \o Flatten(Tail(ss))

\* The model's strings in the byte order of Go's < on strings.
ByteOrder ==
    <<"", " ", " Acme ", "ACME", "Acme", "Bank", "CMA", "XYZ", "a", "acme", "b", "c",
      "c1", "c2", "c3", "c4", "c5", "c6", "ev1", "ev2", "ev3">>

StrRank(s) == CHOOSE i \in 1..Len(ByteOrder) : ByteOrder[i] = s

StringLess(a, b) == StrRank(a) < StrRank(b)

\* sort.Strings
SortStrings(s) ==
    CHOOSE t \in Orderings(s) : \A i \in 1..(Len(t) - 1) : ~StringLess(t[i + 1], t[i])

Event(dedupGroup, headline, hotness, tickers, entities, sources, timeline) ==
    [DedupGroup |-> dedupGroup, Headline |-> headline, Hotness |-> hotness,
     Tickers |-> tickers, Entities |-> entities, Sources |-> sources,
     Timeline |-> timeline]

\* Event{}
ZeroEvent == Event("", <<>>, 0, <<>>, <<>>, <<>>, <<>>)

\* A text is held as the sequence of its words.  bilingual(en, ru): the two
\* texts joined by " / ", or the one that is not empty.
bilingual(en, ru) ==
    IF en = <<>> THEN ru
    ELSE IF ru = <<>> THEN en
    ELSE en \o <<"/">> \o ru

\* fmt.Sprintf("%d", i)
Itoa(i) == <<"0", "1", "2", "3", "4", "5", "6", "7", "8", "9">>[i + 1]

TimelineEntry(label, source, url, timestamp) ==
    [Label |-> label, Source |-> source, URL |-> url, Timestamp |-> timestamp]

timelineLabelCountsPositions(idx, n) ==
    IF idx = 0 THEN bilingual(<<"Initial">>, <<"Start">>)
    ELSE IF idx = n - 1 THEN bilingual(<<"Latest">>, <<"Final">>)
    ELSE bilingual(<<"Update", Itoa(idx + 1)>>, <<"Obnovlenie", Itoa(idx + 1)>>)

\* The label buildTimeline leaves on the entry at index idx (from 0) of n;
\* the Russian words are written in Latin letters.
timelineLabel(idx, n) ==
    IF n >= 3 /\ idx >= 1 /\ idx < n - 1
    THEN bilingual(<<"Update", Itoa(idx)>>, <<"Obnovlenie", Itoa(idx)>>)
    ELSE IF idx = 0 THEN bilingual(<<"Initial">>, <<"Start">>)
    ELSE IF idx = n - 1 THEN bilingual(<<"Latest">>, <<"Final">>)
    ELSE bilingual(<<"Update">>, <<"Obnovlenie">>)

\* buildTimeline: the possible timelines; the members are ordered by
\* sort.Slice on a copy, so members of one timestamp land in any order.
buildTimeline(cluster) ==
    IF Len(cluster.Items) = 0 THEN {<<>>}
    ELSE {[i \in 1..Len(sorted) |->
             TimelineEntry(timelineLabel(i - 1, Len(sorted)), sorted[i].Source,
                           sorted[i].URL, sorted[i].PublishedAt)] :
             sorted \in SortSliceByTime(cluster.Items)}

SourceRef(item) ==
    [Title |-> item.Headline, Source |-> item.Source, URL |-> item.URL,
     Published |-> item.PublishedAt]

normalizeEntity(entity) == TrimSpace(ToLower(entity))

\* The values of s whose key (keys[i] for s[i]) was not seen before, in order.
RECURSIVE FirstOccurrences(_, _, _)
FirstOccurrences(s, keys, seen) ==
    IF s = <<>> THEN <<>>
    ELSE IF Head(keys) \in seen
         THEN FirstOccurrences(Tail(s), Tail(keys), seen)
         ELSE <<Head(s)>> \o FirstOccurrences(Tail(s), Tail(keys), seen \cup {Head(keys)})

\* buildEvent's tickers: uppercased, first occurrences, sorted.
eventTickers(members) ==
    LET all == Flatten([i \in 1..Len(members) |-> members[i].Tickers])
        upper == [i \in 1..Len(all) |-> ToUpper(all[i])]
    IN SortStrings(FirstOccurrences(upper, upper, {}))

eventEntitiesFirstSeen(members) ==
    LET all == Flatten([i \in 1..Len(members) |-> members[i].Entities])
        keys == [i \in 1..Len(all) |-> normalizeEntity(all[i])]
    IN FirstOccurrences(all, keys, {})

\* buildEvent's entities: first spelling per normalized entity, sorted.
eventEntities(members) ==
    LET all == Flatten([i \in 1..Len(members) |-> members[i].Entities])
        keys == [i \in 1..Len(all) |-> normalizeEntity(all[i])]
    IN SortStrings(FirstOccurrences(all, keys, {}))

averageSourceWeight(s, members) ==
    IF Len(members) = 0 THEN 300000
    ELSE LET w(item) == IF ToLower(item.Source) \in DOMAIN s.SourceWeights
                        THEN s.SourceWeights[ToLower(item.Source)]
                        ELSE 500000
             total == Sum([i \in 1..Len(members) |-> w(members[i])])
         IN Min(Unit, Div(total, Len(members)))

RECURSIVE tagBest(_, _, _)
tagBest(s, members, best) ==
    IF members = <<>> THEN best
    ELSE LET tag == Head(members).ImportanceTag
         IN IF tag \in DOMAIN s.TagWeights /\ s.TagWeights[tag] > best
            THEN tagBest(s, Tail(members), s.TagWeights[tag])
            ELSE tagBest(s, Tail(members), best)

tagWeight(s, members) ==
    LET best == tagBest(s, members, 0)
    IN IF best = 0 THEN 450000 ELSE best

clamp01NoUpper(v) == IF v < 0 THEN 0 ELSE v

clamp01(v) == IF v < 0 THEN 0 ELSE IF v > Unit THEN Unit ELSE v

weightedSum(weights) ==
    clamp01(Div(weights.coverage * 18 + weights.velocity * 18
                + weights.credibility * 15 + weights.sentiment * 12
                + weights.tag * 18 + weights.breadth * 12 + weights.novelty * 7,
                100))

\* math.Round(v * 10^prec) / 10^prec, halves away from zero.
roundTo(v, prec) ==
    LET step == Unit \div (10 ^ prec)
    IN IF v >= 0 THEN ((v + step \div 2) \div step) * step
       ELSE -((((-v) + step \div 2) \div step) * step)

\* The hotness of a non-empty cluster before rounding.
hotnessOf(s, members) ==
    LET n == Len(members)
        reach == Len(eventTickers(members))
        extent == Len(eventEntities(members))
        totalSentiment == Sum([i \in 1..n |-> Abs(members[i].Sentiment)])
        negativeCount == Cardinality({i \in 1..n : members[i].Sentiment < 0})
        times == {members[i].PublishedAt : i \in 1..n}
        earliest == CHOOSE t \in times : \A u \in times : t <= u
        latest == CHOOSE t \in times : \A u \in times : u <= t
        novelty == IF n > 1 THEN Unit - Min(600000, (n - 1) * 120000) ELSE Unit
        hours == latest - earliest
        velocity == IF hours > 0
                    THEN Max(200000, Min(Unit, Div(6 * Unit, hours + 1)))
                    ELSE Unit
        sentiment0 == Min(Unit, Div(totalSentiment, n))
        sentimentScore == IF negativeCount > 0 /\ negativeCount = n
                          THEN Min(Unit, sentiment0 + 150000)
                          ELSE sentiment0
        breadthScore == Min(Unit, Div(reach * Unit, 4))
        extentScore == Min(Unit, Div(extent * Unit, 6))
    IN weightedSum([coverage |-> Min(Unit, Div(n * Unit, 4)),
                    velocity |-> velocity,
                    credibility |-> averageSourceWeight(s, members),
                    sentiment |-> sentimentScore,
                    tag |-> tagWeight(s, members),
                    breadth |-> Div(60 * breadthScore + 40 * extentScore, 100),
                    novelty |-> novelty])

\* buildEvent: the possible events (they differ in the timeline only).
buildEvent(s, cluster) ==
    IF Len(cluster.Items) = 0 THEN {ZeroEvent}
    ELSE {Event(cluster.ID, cluster.Primary.Headline,
                roundTo(hotnessOf(s, cluster.Items), 3),
                eventTickers(cluster.Items), eventEntities(cluster.Items),
                [i \in 1..Len(cluster.Items) |-> SourceRef(cluster.Items[i])],
                timeline) :
             timeline \in buildTimeline(cluster)}

IsSortedByHotness(ev) == \A i \in 1..(Len(ev) - 1) : ev[i].Hotness >= ev[i + 1].Hotness

SortSliceKeepsOrder(ev) == {ev}

\* sort.Slice(events, by Hotness descending): some ordering of the events by
\* non-increasing hotness; sort.Slice is not stable, so ties land in any order.
SortSliceByHotness(ev) == {t \in Orderings(ev) : IsSortedByHotness(t)}

\* The events buildEvent makes of the clusters, one per cluster: the possible
\* sequences.
RECURSIVE BuiltEvents(_, _)
BuiltEvents(s, clusters) ==
    IF clusters = <<>> THEN {<<>>}
    ELSE {<<e>> \o rest : e \in buildEvent(s, Head(clusters)),
                          rest \in BuiltEvents(s, Tail(clusters))}

KeepsEveryEvent(e) == TRUE

\* ScoreClusters skips an event whose Hotness <= 0.
KeepsEvent(e) == e.Hotness > 0

\* ScoreClusters: the possible runs, each with the events built and the
\* events returned.
ScoreOutcomes(s, clusters) ==
    IF Len(clusters) = 0 THEN {[built |-> <<>>, events |-> <<>>]}
    ELSE UNION {{[built |-> built, events |-> events] :
                    events \in SortSliceByHotness(
                                  SelectSeq(built, KeepsEvent))} :
                built \in BuiltEvents(s, clusters)}

\* ScoreClusters: the possible return values.
ScoreClusters(s, clusters) == {o.events : o \in ScoreOutcomes(s, clusters)}

\* Scorers: DefaultScorer's weights for the model's sources and tags, and
\* weights outside [0,1].
SourceWeightMaps ==
    {[k \in {"reuters", "bloomberg"} |-> IF k = "reuters" THEN 880000 ELSE 900000],
     [k \in {"reuters", "ingest"} |-> IF k = "reuters" THEN -5000000 ELSE 2000000],
     [k \in {} |-> 0]}

TagWeightMaps ==
    {[k \in {"flows", "macro_policy"} |-> IF k = "flows" THEN 600000 ELSE 800000],
     [k \in {"flows", "macro_policy"} |-> IF k = "flows" THEN -1000000 ELSE 6000000],
     [k \in {} |-> 0]}

Scorers == [SourceWeights : SourceWeightMaps, TagWeights : TagWeightMaps]

DefaultScorer ==
    [SourceWeights |-> [k \in {"reuters", "bloomberg"} |->
                           IF k = "reuters" THEN 880000 ELSE 900000],
     TagWeights |-> [k \in {"flows", "macro_policy"} |->
                        IF k = "flows" THEN 600000 ELSE 800000]]

ScorePool ==
    <<NewsItem("n1", <<"Fed", "Cuts", "Rates">>, "Reuters", "http://1", "en", 1,
               <<"cma">>, <<"Acme">>, -500000, "flows"),
      NewsItem("n2", <<"Bank", "of", "Acme">>, "Bloomberg", "http://2", "EN", 1,
               <<"CMA", "xyz">>, <<" Acme ">>, 800000, ""),
      NewsItem("n3", <<"fed", "cuts", "rates">>, "ingest", "http://3", "ru", 3,
               <<>>, <<"acme">>, 0, "macro_policy"),
      NewsItem("n4", <<"to", "a">>, "ingest", "http://4", "en", 1,
               <<>>, <<>>, 0, ""),
      NewsItem("n5", <<"Bank", "of", "Acme">>, "ingest", "http://5", "en", 2,
               <<"xyz", "cma">>, <<"acme", "Bank">>, 0, "")>>

\* The cluster with the given id and members, as the engines build it.
ClusterOf(id, members) ==
    IF members = <<>> THEN Cluster(id, <<>>, NoItem, 0, 0, NoAnnotations)
    ELSE LET times == {members[i].PublishedAt : i \in 1..Len(members)}
         IN Cluster(id, members, members[1],
                    CHOOSE t \in times : \A u \in times : t <= u,
                    CHOOSE t \in times : \A u \in times : u <= t,
                    NoAnnotations)

ScoreClusterPool ==
    {ClusterOf(id, members) :
        id \in {"a", "b"},
        members \in {<<>>, <<ScorePool[1]>>, <<ScorePool[4]>>,
                     <<ScorePool[1], ScorePool[2]>>, <<ScorePool[2], ScorePool[3]>>}}
    \cup {ClusterOf("a", <<ScorePool[3], ScorePool[4], ScorePool[1]>>),
          ClusterOf("a", <<ScorePool[5], ScorePool[1]>>),
          ClusterOf("b", <<ScorePool[3], ScorePool[1], ScorePool[2], ScorePool[4]>>)}

ScoreCall(s, called, clusters, built, events) ==
    [called |-> called, cfg |-> s, clusters |-> clusters, built |-> built,
     events |-> events]

\* A Scorer and the clusters it is about to be called with.
ScoreArmed ==
    \E s \in Scorers, clusters \in SeqsUpTo(ScoreClusterPool, MaxScored) :
       score = ScoreCall(s, FALSE, clusters, <<>>, <<>>)

ScorerScoreClusters ==
    /\ ~ScoreIdle
    /\ ~score.called
    /\ \E o \in ScoreOutcomes(score.cfg, score.clusters) :
          score' = ScoreCall(score.cfg, TRUE, score.clusters, o.built, o.events)
    /\ UNCHANGED notScoreVars

InitScore ==
    StoreNew /\ HeurIdle /\ LLMIdle /\ CacheIdle /\ PipeIdle /\ ExtraIdle /\ ScoreArmed

NextScore == ScorerScoreClusters

SpecScore == InitScore /\ [][NextScore]_vars

-----------------------------------------------------------------------------
(* SourceRegistry, StaticFileSource and the Pipeline *)

MaxLimit == 1

\* A StaticFileSource over a readable file with the given decoded items, or a
\* source whose file cannot be read.
StaticFileSource(name, readable, decoded) ==
    [name |-> name, kind |-> "static", readable |-> readable, decoded |-> decoded]

\* An IngestSource registered as a Source, holding the given items.
IngestSourceOf(name, stored) ==
    [name |-> name, kind |-> "ingest", readable |-> TRUE, decoded |-> stored]

FetchResult(out, err) == [items |-> out, err |-> err]

StaticFetchIgnoresCtx(src, ctxDone, from, to) ==
    IF ~src.readable THEN FetchResult(<<>>, "read")
    ELSE FetchResult(SelectSeq(src.decoded,
                               LAMBDA x : ~(x.PublishedAt < from) /\ ~(x.PublishedAt > to)),
                     "")

\* StaticFileSource.Fetch
StaticFetch(src, ctxDone, from, to) ==
    IF ctxDone THEN FetchResult(<<>>, "ctx")
    ELSE IF ~src.readable THEN FetchResult(<<>>, "read")
    ELSE FetchResult(SelectSeq(src.decoded,
                               LAMBDA x : ~(x.PublishedAt < from) /\ ~(x.PublishedAt > to)),
                     "")

\* IngestSource.Fetch as a Source: the possible results.
IngestFetch(src, ctxDone, from, to) ==
    IF ctxDone THEN {FetchResult(<<>>, "ctx")}
    ELSE {FetchResult(out, "") : out \in SortSliceByTime(FetchFilter(src.decoded, from, to))}

\* Source.Fetch of a registered source.
SourceFetch(src, ctxDone, from, to) ==
    IF src.kind = "ingest" THEN IngestFetch(src, ctxDone, from, to)
    ELSE {StaticFetch(src, ctxDone, from, to)}

\* What FetchAll returns, and the sources it called: on failure no items and
\* the failing source's error wrapped with its name.
FetchAllResult(out, err, name, cause, fetched) ==
    [items |-> out, err |-> err, source |-> name, cause |-> cause, fetched |-> fetched]

FetchAllKeepsGoing(r) == FALSE

\* FetchAll stops at the first source whose Fetch returns an error.
FetchAllStops(r) == r.err # ""

\* SourceRegistry.FetchAll over the sources from position k, results so far.
RECURSIVE FetchAllFrom(_, _, _, _, _, _, _)
FetchAllFrom(sources, k, results, fetched, ctxDone, from, to) ==
    IF k > Len(sources) THEN {FetchAllResult(results, "", "", "", fetched)}
    ELSE UNION {
           IF FetchAllStops(r)
           THEN {FetchAllResult(<<>>, "fetch", sources[k].name, r.err,
                                Append(fetched, sources[k].name))}
           ELSE FetchAllFrom(sources, k + 1, results \o r.items,
                             Append(fetched, sources[k].name), ctxDone, from, to) :
           r \in SourceFetch(sources[k], ctxDone, from, to)}

FetchAll(sources, ctxDone, from, to) ==
    FetchAllFrom(sources, 1, <<>>, <<>>, ctxDone, from, to)

filterLanguageKeepsAll(s, lang) == s

filterLanguage(s, lang) ==
    IF ToLower(lang) = "" THEN s
    ELSE SelectSeq(s, LAMBDA x : ToLower(x.Language) = ToLower(lang))

QueryParams(from, to, limit, language) ==
    [From |-> from, To |-> to, Limit |-> limit, Language |-> language]

\* The reply the engine's client gives: once the context is cancelled the
\* request may fail instead (the cause is then the context's error).
EngineReplies(e, ctxDone) ==
    IF ctxDone THEN {e.reply, [kind |-> "error", clusters |-> <<>>]} ELSE {e.reply}

\* ClusterEngine.BuildClusters of the pipeline's engine: the possible
\* (clusters, error) results.  The heuristic engine does not read its context.
EngineBuildClusters(e, ctxDone, input, ids) ==
    IF e.kind = "heuristic"
    THEN {[out |-> o, err |-> "", wraps |-> {}, upstreamFailed |-> FALSE] :
             o \in HeuristicBuildClusters(e.cfg, input, ids)}
    ELSE UNION {{[out |-> r.out, err |-> r.err, wraps |-> r.wraps,
                  upstreamFailed |-> r.fbCalled \/ r.err = "cause"] :
                    r \in LLMBuildClusters(e.cfg, input, reply, ids)} :
                reply \in EngineReplies(e, ctxDone)}

\* The outcome of Run with the output of every stage: fetch is FetchAll's
\* result, handed the items given to the clusterer, scored the scorer's
\* ranking, events and err what Run returns.
RunResult(fetch, handed, reached, engine, scored, events, err, wraps) ==
    [fetched |-> fetch.items, sourcesCalled |-> fetch.fetched,
     errSource |-> fetch.source, handed |-> handed, reached |-> reached,
     clusters |-> engine.out, llmFailed |-> engine.upstreamFailed,
     scored |-> scored, events |-> events, err |-> err, wraps |-> wraps]

NoEngineResult == [out |-> <<>>, err |-> "", wraps |-> {}, upstreamFailed |-> FALSE]

LimitKeepsAll(events, limit) == events

\* events[:params.Limit] when there are more
Limited(events, limit) ==
    IF Len(events) > limit THEN SubSeq(events, 1, limit) ELSE events

\* Pipeline.Run: the possible outcomes.  ctxDone: the context is cancelled on
\* entry; ctxLater: it is cancelled when the fetch stage has returned.
Run(p, ctxDone, ctxLater, params) ==
    LET limit == IF params.Limit <= 0 THEN 5 ELSE params.Limit
    IN UNION {
         IF fetch.err # ""
         THEN {RunResult(fetch, <<>>, FALSE, NoEngineResult, <<>>, <<>>,
                         fetch.err, {fetch.cause})}
         ELSE LET handed == IF params.Language # ""
                            THEN filterLanguage(fetch.items, params.Language)
                            ELSE fetch.items
              IN UNION {
                   UNION {
                     IF c.err # ""
                     THEN {RunResult(fetch, handed, TRUE, [c EXCEPT !.out = <<>>],
                                     <<>>, <<>>, c.err, c.wraps)}
                     ELSE {RunResult(fetch, handed, TRUE, c, events,
                                     Limited(events, limit), "", {}) :
                              events \in ScoreClusters(p.Scorer, c.out)} :
                     c \in EngineBuildClusters(p.Clusterer, ctxLater, handed, ids)} :
                   ids \in UuidSeqs(Len(handed))} :
         fetch \in FetchAll(p.Sources, ctxDone, params.From, params.To)}

\* DefaultClusterer
DefaultClusterer == [kind |-> "heuristic", cfg |-> NewHeuristicClusterer(6, 45)]

PipeReplies ==
    {[kind |-> "error", clusters |-> <<>>],
     [kind |-> "json", clusters |-> <<Decoded("ev1", <<"n2", "n1">>, "", "")>>],
     [kind |-> "json", clusters |-> <<Decoded("ev2", <<"n3", "n3", "n1">>, "zz", ""),
                                      Decoded("ev3", <<"n4">>, "", "")>>]}

PipeEngines ==
    {DefaultClusterer}
    \cup {[kind |-> "llm", cfg |-> c, reply |-> reply] :
             c \in [Client : {"set"}, Model : {"m"}, MaxItems : {0},
                    Fallback : {[kind |-> "nil"], [kind |-> "failing"],
                                [kind |-> "heuristic", cfg |-> NewHeuristicClusterer(0, 0)]}],
             reply \in PipeReplies}

\* Six items no two of which are related, of six different hotness values.
WireItems ==
    [k \in 1..6 |->
        NewsItem(<<"w1", "w2", "w3", "w4", "w5", "w6">>[k], <<"to", "a">>, "ingest",
                 "http://w", "en", k, <<>>, <<>>, k * 100000, "")]

PipeRegistries ==
    LET file == StaticFileSource("file", TRUE, <<ScorePool[1], ScorePool[2], ScorePool[3]>>)
        store == IngestSourceOf("ingest", <<ScorePool[4], ScorePool[1]>>)
        broken == StaticFileSource("broken", FALSE, <<>>)
        wire == StaticFileSource("wire", TRUE, WireItems)
    IN {<<file>>, <<file, store>>, <<store, file>>, <<file, broken, store>>, <<wire>>}

PipeWindows == {<<1, 3>>, <<1, 1>>, <<2, 3>>, <<1, 6>>}

PipeLanguages == {"", "en", "EN", "ru", "de"}

PipeCall(p, called, ctxDone, ctxLater, params, res) ==
    [called |-> called, cfg |-> p, ctxDone |-> ctxDone, ctxLater |-> ctxLater,
     params |-> params, res |-> res]

NoRun ==
    RunResult(FetchAllResult(<<>>, "", "", "", <<>>), <<>>, FALSE, NoEngineResult,
              <<>>, <<>>, "", {})

\* NewPipeline(sources, clusterer, scorer)
NewPipeline ==
    \E sources \in PipeRegistries, e \in PipeEngines :
       pipe = PipeCall([Sources |-> sources, Clusterer |-> e, Scorer |-> DefaultScorer],
                       FALSE, FALSE, FALSE, QueryParams(0, 0, 0, ""), NoRun)

\* Run keeps no state between calls, so a behaviour holds one call.  A
\* context cancelled on entry stays cancelled.
PipelineRun(ctxDone, ctxLater, params) ==
    /\ ~PipeIdle
    /\ ~pipe.called
    /\ ctxDone => ctxLater
    /\ \E res \in Run(pipe.cfg, ctxDone, ctxLater, params) :
          pipe' = PipeCall(pipe.cfg, TRUE, ctxDone, ctxLater, params, res)
    /\ UNCHANGED notPipeVars

InitPipe ==
    StoreNew /\ HeurIdle /\ LLMIdle /\ CacheIdle /\ ScoreIdle /\ ExtraIdle /\ NewPipeline

NextPipe ==
    \E ctxDone \in BOOLEAN, ctxLater \in BOOLEAN, w \in PipeWindows,
       limit \in (-1)..MaxLimit, language \in PipeLanguages :
       PipelineRun(ctxDone, ctxLater, QueryParams(w[1], w[2], limit, language))

SpecPipe == InitPipe /\ [][NextPipe]_vars

-----------------------------------------------------------------------------
(* The HTTP server: POST /news (handleIngest) and GET /radar (handleRadar) *)

notServerVars == <<heur, llm, cacheVars, score, pipe, sim, dec, conc>>

\* time.Parse(time.RFC3339, s) of the timestamps the requests carry: the
\* instant in hours, whatever the zone offset.
timeParse(s) ==
    CASE s = "2025-10-03T02:00:00Z" -> [ok |-> TRUE, t |-> 2]
      [] s = "2025-10-03T03:00:00Z" -> [ok |-> TRUE, t |-> 3]
      [] s = "2025-10-03T04:00:00+01:00" -> [ok |-> TRUE, t |-> 3]
      [] OTHER -> [ok |-> FALSE, t |-> 0]

\* strconv.Atoi of the numbers the queries carry.
Atoi(s) ==
    CASE s = "0" -> [ok |-> TRUE, n |-> 0]
      [] s = "1" -> [ok |-> TRUE, n |-> 1]
      [] s = "2" -> [ok |-> TRUE, n |-> 2]
      [] s = "-1" -> [ok |-> TRUE, n |-> -1]
      [] OTHER -> [ok |-> FALSE, n |-> 0]

defaultString(value, fallback) == IF TrimSpace(value) = "" THEN fallback ELSE value

RECURSIVE dedupeFrom(_, _)
dedupeFrom(values, seen) ==
    IF values = <<>> THEN <<>>
    ELSE LET v == TrimSpace(Head(values))
             key == ToUpper(v)
         IN IF v = "" \/ key \in seen
            THEN dedupeFrom(Tail(values), seen)
            ELSE <<v>> \o dedupeFrom(Tail(values), seen \cup {key})

\* dedupeStrings of the transport package: a list of at most one value is
\* returned as it is; otherwise values are trimmed, blanks dropped and the
\* first of the values equal ignoring case kept.
httpDedupeStrings(values) ==
    IF Len(values) <= 1 THEN values ELSE dedupeFrom(values, {})

\* The body of a POST /news: json is "bad" when it does not decode into the
\* payload struct (malformed, or a field the struct does not have).
Payload(method, json, id, headline, url, publishedAt, tickers) ==
    [kind |-> "ingest", method |-> method, json |-> json, ID |-> id,
     Headline |-> headline, Source |-> "", URL |-> url, Language |-> "",
     PublishedAt |-> publishedAt, Tickers |-> tickers, Entities |-> <<>>]

Payloads ==
    {Payload("POST", "ok", "", <<"Bank", "of", "Acme">>, "http://p", at, <<"cma", "CMA">>) :
        at \in {"", "2025-10-03T02:00:00Z", "2025-10-03T04:00:00+01:00"}}
    \cup {Payload("POST", "ok", "n1", <<"Bank", "of", "Acme">>, "http://p", at, <<>>) :
        at \in {"", "2025-10-03T04:00:00+01:00"}}
    \cup {Payload("POST", "ok", "n1", <<>>, "http://p", "2025-10-03T02:00:00Z", <<>>),
          Payload("POST", "ok", "n1", <<"Bank", "of", "Acme">>, "",
                  "2025-10-03T02:00:00Z", <<>>),
          Payload("POST", "ok", "n1", <<"Bank", "of", "Acme">>, "http://p",
                  "yesterday", <<>>),
          Payload("POST", "ok", "", <<>>, "", "yesterday", <<"cma", "CMA">>),
          Payload("POST", "bad", "", <<>>, "", "", <<>>),
          Payload("GET", "ok", "n1", <<"Bank", "of", "Acme">>, "http://p",
                  "2025-10-03T02:00:00Z", <<>>)}

\* The query of a GET /radar.
Query(limit, from, to, windowHours, lang) ==
    [kind |-> "radar", limit |-> limit, from |-> from, to |-> to,
     window_hours |-> windowHours, lang |-> lang]

Queries ==
    {Query(limit, "", "2025-10-03T03:00:00Z", "", lang) :
        limit \in {"", "1"}, lang \in {"", "ru"}}
    \cup {Query("", "", "", "", ""),
          Query("0", "2025-10-03T02:00:00Z", "2025-10-03T03:00:00Z", "", ""),
          Query("x", "2025-10-03T03:00:00Z", "2025-10-03T02:00:00Z", "", "en"),
          Query("", "yesterday", "tomorrow", "1", ""),
          Query("2", "", "2025-10-03T03:00:00Z", "-1", "")}

NoRequest == [kind |-> "none"]

\* The Server with the registry cmd/main builds: the sample file, then the
\* ingest store.  ingest is FALSE for a Server constructed without a store.
ServerConfig(readable, clusterer, ingest, topK) ==
    [static |-> StaticFileSource("sample", readable, <<ScorePool[1], ScorePool[3]>>),
     clusterer |-> clusterer, ingest |-> ingest, defaultWindow |-> 2,
     defaultLimit |-> topK]

ServerLLM(reply) ==
    [kind |-> "llm",
     cfg |-> [Client |-> "set", Model |-> "m", MaxItems |-> 0,
              Fallback |-> [kind |-> "heuristic", cfg |-> NewHeuristicClusterer(6, 45)]],
     reply |-> reply]

ServerConfigs ==
    {ServerConfig(TRUE, DefaultClusterer, TRUE, 2),
     ServerConfig(TRUE, DefaultClusterer, TRUE, 1),
     ServerConfig(FALSE, DefaultClusterer, TRUE, 2),
     ServerConfig(TRUE, DefaultClusterer, FALSE, 2),
     ServerConfig(TRUE, ServerLLM([kind |-> "error", clusters |-> <<>>]), TRUE, 2),
     ServerConfig(TRUE, ServerLLM([kind |-> "json",
                                   clusters |-> <<Decoded("ev1", <<"n3", "n1">>, "", "")>>]),
                  TRUE, 2)}

\* The pipeline the Server runs: its ingest source is the store as it is now.
ServerPipeline(cfg) ==
    [Sources |-> IF cfg.ingest
                 THEN <<cfg.static, IngestSourceOf("ingest", items)>>
                 ELSE <<cfg.static>>,
     Clusterer |-> cfg.clusterer, Scorer |-> DefaultScorer]

\* The last request, its response, the store before it, and the record the
\* last accepted POST /news stored (history).
ServerState(cfg, req, status, before, params, run, accepted) ==
    [called |-> TRUE, cfg |-> cfg, req |-> req, status |-> status, before |-> before,
     params |-> params, run |-> run, accepted |-> accepted]

\* NewServer(pipeline, cfg, ingest)
NewServer ==
    \E cfg \in ServerConfigs :
       http = ServerState(cfg, NoRequest, 0, <<>>, QueryParams(0, 0, 0, ""), NoRun, NoItem)

\* The time handleIngest gives the item: now when published_at is absent.
ingestPublished(payload) ==
    IF payload.PublishedAt = "" THEN clock ELSE timeParse(payload.PublishedAt).t

\* The status handleIngest answers with.
ingestStatus(cfg, payload) ==
    IF payload.method # "POST" THEN 405
    ELSE IF ~cfg.ingest THEN 503
    ELSE IF payload.json # "ok" THEN 400
    ELSE IF payload.Headline = <<>> \/ payload.URL = "" THEN 400
    ELSE IF payload.PublishedAt # "" /\ ~timeParse(payload.PublishedAt).ok THEN 400
    ELSE 202

\* The NewsItem handleIngest builds from an accepted payload.
ingestNews(payload) ==
    NewsItem(payload.ID, payload.Headline, defaultString(payload.Source, "ingest"),
             payload.URL, defaultString(payload.Language, "en"),
             ingestPublished(payload), httpDedupeStrings(payload.Tickers),
             httpDedupeStrings(payload.Entities), 0, "")

\* GET /radar changes nothing the server keeps, so the requests after it are
\* answered as they would be without it: a behaviour is followed up to its
\* first GET /radar.
ServerAnswered == http.called /\ http.req.kind \in {"radar", "radar-cancelled"}

\* Server.handleIngest
handleIngest(payload) ==
    /\ http.called
    /\ ~ServerAnswered
    /\ LET status == ingestStatus(http.cfg, payload)
       IN IF status # 202
          THEN /\ http' = [http EXCEPT !.req = payload, !.status = status,
                                       !.before = items, !.run = NoRun,
                                       !.params = QueryParams(0, 0, 0, "")]
               /\ UNCHANGED <<items, uuidCount, live, lastOp>>
          ELSE /\ payload.ID = "" => uuidCount < Len(Uuids)
               /\ LET stored == AddDefaults(ingestNews(payload))
                  IN /\ items' = AddToItems(items, stored)
                     /\ uuidCount' = IF payload.ID = "" THEN uuidCount + 1 ELSE uuidCount
                     /\ live' = {r \in live : r.ID # stored.ID} \cup {stored}
                     /\ lastOp' = StoreOp("Add", stored, 0, 0, FALSE, <<>>, FALSE, 0,
                                          IndexOfID(items, stored.ID) # 0)
                     /\ http' = [http EXCEPT !.req = payload, !.status = status,
                                             !.before = items, !.run = NoRun,
                                             !.params = QueryParams(0, 0, 0, ""),
                                             !.accepted = stored]
    /\ UNCHANGED <<clock, notServerVars>>

\* Server.parseParams
parseParams(cfg, q) ==
    LET limit == IF q.limit # "" /\ Atoi(q.limit).ok /\ Atoi(q.limit).n > 0
                 THEN Atoi(q.limit).n ELSE cfg.defaultLimit
        to == IF q.to # "" /\ timeParse(q.to).ok THEN timeParse(q.to).t ELSE clock
        from0 == to - cfg.defaultWindow
        from1 == IF q.window_hours # "" /\ Atoi(q.window_hours).ok
                    /\ Atoi(q.window_hours).n > 0
                 THEN to - Atoi(q.window_hours).n ELSE from0
        from2 == IF q.from # "" /\ timeParse(q.from).ok THEN timeParse(q.from).t
                 ELSE from1
        from == IF from2 > to THEN to - cfg.defaultWindow ELSE from2
    IN QueryParams(from, to, limit, q.lang)

\* Server.handleRadar: ctxDone when the request's context is cancelled before
\* Run starts, ctxLater when it is (cancelled or timed out) during the Run.
handleRadar(q, ctxDone, ctxLater) ==
    /\ http.called
    /\ ~ServerAnswered
    /\ ctxDone => ctxLater
    /\ LET params == parseParams(http.cfg, q)
       IN \E res \in Run(ServerPipeline(http.cfg), ctxDone, ctxLater, params) :
             http' = [http EXCEPT !.req = [q EXCEPT !.kind = IF ctxLater THEN "radar-cancelled"
                                                              ELSE "radar"],
                                  !.status = IF res.err # "" THEN 500 ELSE 200,
                                  !.before = items, !.params = params, !.run = res]
    /\ UNCHANGED <<storeVars, notServerVars>>

\* Wall-clock time passes between requests.
ServerTick ==
    /\ ~ServerAnswered
    /\ clock < MaxClock
    /\ clock' = clock + 1
    /\ UNCHANGED <<items, uuidCount, live, lastOp, http, notServerVars>>

InitServer ==
    /\ StoreNew
    /\ HeurIdle /\ LLMIdle /\ CacheIdle /\ ScoreIdle /\ PipeIdle
    /\ sim = [called |-> FALSE]
    /\ dec = [called |-> FALSE]
    /\ conc = [called |-> FALSE]
    /\ NewServer

NextServer ==
    \/ \E payload \in Payloads : handleIngest(payload)
    \/ \E q \in Queries : handleRadar(q, FALSE, FALSE)
    \/ \E ctxDone \in BOOLEAN : handleRadar(Query("", "", "", "", ""), ctxDone, TRUE)
    \/ ServerTick

SpecServer == InitServer /\ [][NextServer]_vars

-----------------------------------------------------------------------------
(* similarityScore as a value, in millionths *)

MaxWords == 2

notSimVars == <<storeVars, heur, llm, cacheVars, score, pipe, http, dec, conc>>

similarityUnionOfLists(tokensA, tokensB, intersection) ==
    Len(tokensA) + Len(tokensB) - intersection

\* len(setA) + len(setB) - intersection
similarityUnion(tokensA, tokensB, intersection) ==
    Cardinality(Range(tokensA)) + Cardinality(Range(tokensB)) - intersection

similarityScore(a, b) ==
    LET tokensA == tokenize(a)
        tokensB == tokenize(b)
        intersection == Cardinality(Range(tokensA) \cap Range(tokensB))
        union == similarityUnion(tokensA, tokensB, intersection)
    IN IF Len(tokensA) = 0 \/ Len(tokensB) = 0 THEN 0
       ELSE IF union = 0 THEN 0
       ELSE Div(intersection * Unit, union)

\* Headlines of up to MaxWords words: words that differ in case only, a word
\* tokenize drops, and an unrelated word.
SimWords == {"Fed", "fed", "to", "Acme"}

SimHeadlines == SeqsUpTo(SimWords, MaxWords)

\* Two headlines are compared, each way round.  similarityScore keeps no
\* state, so a behaviour holds one comparison.
SimilarityScore(a, b) ==
    /\ ~sim.called
    /\ sim' = [called |-> TRUE, a |-> a, b |-> b, score |-> similarityScore(a, b),
               swapped |-> similarityScore(b, a)]
    /\ UNCHANGED notSimVars

InitSim ==
    /\ StoreNew
    /\ HeurIdle /\ LLMIdle /\ CacheIdle /\ ScoreIdle /\ PipeIdle
    /\ http = [called |-> FALSE]
    /\ dec = [called |-> FALSE]
    /\ conc = [called |-> FALSE]
    /\ sim = [called |-> FALSE]

NextSim == \E a \in SimHeadlines, b \in SimHeadlines : SimilarityScore(a, b)

SpecSim == InitSim /\ [][NextSim]_vars

-----------------------------------------------------------------------------
(* Goroutines calling one IngestSource.  The heap holds the backing arrays   *)
(* of the slices: s.items and every slice Fetch makes.  A slice is an array  *)
(* and a length; an array is a sequence as long as its capacity.  A NewsItem *)
(* is copied as one value, except where Add overwrites a stored record,      *)
(* which takes two writes.                                                   *)

MaxCalls == 3

notConcVars == <<storeVars, heur, llm, cacheVars, score, pipe, http, sim, dec>>

Goroutines == {"g1", "g2"}

ConcItem(id, ts) == NewsItem(id, <<"one">>, "ingest", "http://x", "en", ts, <<>>, <<>>, 0, "")

\* The stores the goroutines start from, each with the array append left it in.
ConcStores ==
    {[content |-> <<ConcItem("a", 1), ConcItem("b", 2), ConcItem("c", 3)>>, cap |-> 4],
     [content |-> <<ConcItem("c", 3), ConcItem("a", 1)>>, cap |-> 2],
     [content |-> <<>>, cap |-> 0]}

ConcAddInputs == {ConcItem("a", 3), ConcItem("d", 2)}

ConcWindows == {<<1, 3>>, <<2, 3>>}

ConcPruneBounds == {2, 3}

NilSlice == [arr |-> 0, len |-> 0]

\* make([]NewsItem, n): an array of n zero values.
NewArray(n) == [i \in 1..n |-> NoItem]

\* The elements of a slice.
Deref(mem, slice) ==
    IF slice.len = 0 THEN <<>> ELSE SubSeq(mem[slice.arr], 1, slice.len)

Cap(mem, slice) == IF slice.arr = 0 THEN 0 ELSE Len(mem[slice.arr])

\* The capacity append gives the array it allocates when the old one is full.
GrownCap(cap) == IF cap = 0 THEN 1 ELSE 2 * cap

IdleFrame ==
    [pc |-> "idle", item |-> NoItem, from |-> 0, to |-> 0, ts |-> 0, hdr |-> NilSlice,
     i |-> 0, k |-> 0, out |-> 0, removed |-> 0, seen |-> {}]

\* The goroutines that have called Fetch and not yet returned.
Fetching(procs) == {g \in Goroutines : procs[g].pc \in {"rlock", "copy", "sort"}}

RLockIgnoresWriter(lock) == TRUE

\* RWMutex.RLock proceeds when no goroutine holds the write lock.
RLockAdmits(lock) == lock.writer = "none"

\* RWMutex.Lock proceeds when no goroutine holds the lock in either mode.
LockAdmits(lock) == lock.writer = "none" /\ lock.readers = {}

\* What a returned Fetch left: the slice, its elements as returned and as they
\* should be now, and the store's contents during the call (history).
Returned(slice, value, err, from, to, seen) ==
    [slice |-> slice, fetched |-> value, value |-> value, err |-> err, from |-> from,
     to |-> to, seen |-> seen, reordered |-> FALSE]

\* Fetch is called: the context check, before the lock.
FetchCall(g, ctxDone, from, to) ==
    /\ conc.called
    /\ conc.procs[g].pc = "idle"
    /\ conc.calls < MaxCalls
    /\ IF ctxDone
       THEN conc' = [conc EXCEPT !.calls = @ + 1,
                                 !.returned = Append(@, Returned(NilSlice, <<>>, TRUE, from, to,
                                                                 {conc.committed}))]
       ELSE conc' = [conc EXCEPT !.calls = @ + 1,
                                 !.procs[g] = [IdleFrame EXCEPT !.pc = "rlock", !.from = from,
                                                                !.to = to,
                                                                !.seen = {conc.committed}]]
    /\ UNCHANGED notConcVars

\* s.mu.RLock(); out := make([]NewsItem, 0, len(s.items)); the range
\* expression s.items is evaluated once.
FetchRLock(g) ==
    /\ conc.called
    /\ conc.procs[g].pc = "rlock"
    /\ RLockAdmits(conc.lock)
    /\ conc' = [conc EXCEPT !.lock.readers = @ \cup {g},
                            !.mem = Append(@, NewArray(conc.store.len)),
                            !.procs[g].out = Len(conc.mem) + 1,
                            !.procs[g].hdr = conc.store,
                            !.procs[g].i = 1,
                            !.procs[g].pc = "copy"]
    /\ UNCHANGED notConcVars

\* One iteration of Fetch's loop.
FetchCopy(g) ==
    /\ conc.called
    /\ conc.procs[g].pc = "copy"
    /\ LET f == conc.procs[g]
       IN IF f.i > f.hdr.len
          THEN conc' = [conc EXCEPT !.procs[g].pc = "sort"]
          ELSE LET item == conc.mem[f.hdr.arr][f.i]
               IN IF InWindow(item, f.from, f.to)
                  THEN conc' = [conc EXCEPT !.mem[f.out][f.k + 1] = item,
                                            !.procs[g].k = @ + 1,
                                            !.procs[g].i = @ + 1]
                  ELSE conc' = [conc EXCEPT !.procs[g].i = @ + 1]
    /\ UNCHANGED notConcVars

\* sort.Slice(out, ...); s.mu.RUnlock(); return out, nil
FetchReturn(g) ==
    /\ conc.called
    /\ conc.procs[g].pc = "sort"
    /\ LET f == conc.procs[g]
           out == [arr |-> f.out, len |-> f.k]
       IN \E sorted \in SortSliceByTime(Deref(conc.mem, out)) :
             conc' = [conc EXCEPT
                        !.mem[f.out] = sorted \o SubSeq(@, f.k + 1, Len(@)),
                        !.lock.readers = @ \ {g},
                        !.returned = Append(@, Returned(out, sorted, FALSE, f.from, f.to,
                                                        f.seen)),
                        !.procs[g] = IdleFrame]
    /\ UNCHANGED notConcVars

\* Add is called with an item that has an id and a timestamp.
AddCall(g, item) ==
    /\ conc.called
    /\ conc.procs[g].pc = "idle"
    /\ conc.calls < MaxCalls
    /\ conc' = [conc EXCEPT !.calls = @ + 1,
                            !.procs[g] = [IdleFrame EXCEPT !.pc = "lock-add", !.item = item]]
    /\ UNCHANGED notConcVars

\* s.mu.Lock() of Add
AddLock(g) ==
    /\ conc.called
    /\ conc.procs[g].pc = "lock-add"
    /\ LockAdmits(conc.lock)
    /\ conc' = [conc EXCEPT !.lock.writer = g, !.procs[g].pc = "add"]
    /\ UNCHANGED notConcVars

\* Add's scan, then the first half of s.items[idx] = item, or the append.
AddWrite(g) ==
    /\ conc.called
    /\ conc.procs[g].pc = "add"
    /\ LET f == conc.procs[g]
           idx == IndexOfID(Deref(conc.mem, conc.store), f.item.ID)
       IN IF idx # 0
          THEN conc' = [conc EXCEPT
                          !.mem[conc.store.arr][idx] =
                              [f.item EXCEPT !.PublishedAt = conc.mem[conc.store.arr][idx].PublishedAt],
                          !.procs[g].i = idx,
                          !.procs[g].pc = "add-rest"]
          ELSE IF conc.store.len < Cap(conc.mem, conc.store)
          THEN conc' = [conc EXCEPT
                          !.mem[conc.store.arr][conc.store.len + 1] = f.item,
                          !.store.len = @ + 1,
                          !.procs[g].pc = "unlock-add"]
          ELSE conc' = [conc EXCEPT
                          !.mem = Append(@, Deref(conc.mem, conc.store) \o <<f.item>>
                                            \o NewArray(GrownCap(Cap(conc.mem, conc.store))
                                                        - conc.store.len - 1)),
                          !.store = [arr |-> Len(conc.mem) + 1, len |-> conc.store.len + 1],
                          !.procs[g].pc = "unlock-add"]
    /\ UNCHANGED notConcVars

\* The second half of s.items[idx] = item.
AddWriteRest(g) ==
    /\ conc.called
    /\ conc.procs[g].pc = "add-rest"
    /\ conc' = [conc EXCEPT !.mem[conc.store.arr][conc.procs[g].i] = conc.procs[g].item,
                            !.procs[g].pc = "unlock-add"]
    /\ UNCHANGED notConcVars

\* The deferred s.mu.Unlock() of Add.  The call takes effect here: committed
\* is what the store holds by the sequential Add.
AddUnlock(g) ==
    /\ conc.called
    /\ conc.procs[g].pc = "unlock-add"
    /\ LET after == AddToItems(conc.committed, conc.procs[g].item)
       IN conc' = [conc EXCEPT
                     !.lock.writer = "none",
                     !.committed = after,
                     !.procs = [h \in Goroutines |->
                                  IF h = g THEN IdleFrame
                                  ELSE IF h \in Fetching(conc.procs)
                                  THEN [conc.procs[h] EXCEPT !.seen = @ \cup {after}]
                                  ELSE conc.procs[h]]]
    /\ UNCHANGED notConcVars

PruneCall(g, ts) ==
    /\ conc.called
    /\ conc.procs[g].pc = "idle"
    /\ conc.calls < MaxCalls
    /\ conc' = [conc EXCEPT !.calls = @ + 1,
                            !.procs[g] = [IdleFrame EXCEPT !.pc = "lock-prune", !.ts = ts]]
    /\ UNCHANGED notConcVars

\* s.mu.Lock() of PruneOlderThan; the early return for an empty store;
\* filtered := s.items[:0]
PruneLock(g) ==
    /\ conc.called
    /\ conc.procs[g].pc = "lock-prune"
    /\ LockAdmits(conc.lock)
    /\ conc' = [conc EXCEPT !.lock.writer = g,
                            !.procs[g].hdr = conc.store,
                            !.procs[g].i = 1,
                            !.procs[g].pc = IF conc.store.len = 0 THEN "unlock-prune"
                                            ELSE "compact"]
    /\ UNCHANGED notConcVars

\* One iteration of the compaction, in place; after the last, s.items = filtered.
PruneStep(g) ==
    /\ conc.called
    /\ conc.procs[g].pc = "compact"
    /\ LET f == conc.procs[g]
       IN IF f.i > f.hdr.len
          THEN conc' = [conc EXCEPT !.store.len = f.k, !.procs[g].pc = "unlock-prune"]
          ELSE LET item == conc.mem[f.hdr.arr][f.i]
               IN IF item.PublishedAt < f.ts
                  THEN conc' = [conc EXCEPT !.procs[g].removed = @ + 1,
                                            !.procs[g].i = @ + 1]
                  ELSE conc' = [conc EXCEPT !.mem[f.hdr.arr][f.k + 1] = item,
                                            !.procs[g].k = @ + 1,
                                            !.procs[g].i = @ + 1]
    /\ UNCHANGED notConcVars

\* The deferred s.mu.Unlock() of PruneOlderThan.
PruneUnlock(g) ==
    /\ conc.called
    /\ conc.procs[g].pc = "unlock-prune"
    /\ LET after == PruneFilter(conc.committed, conc.procs[g].ts)
       IN conc' = [conc EXCEPT
                     !.lock.writer = "none",
                     !.committed = after,
                     !.procs = [h \in Goroutines |->
                                  IF h = g THEN IdleFrame
                                  ELSE IF h \in Fetching(conc.procs)
                                  THEN [conc.procs[h] EXCEPT !.seen = @ \cup {after}]
                                  ELSE conc.procs[h]]]
    /\ UNCHANGED notConcVars

Reverse(s) == [i \in 1..Len(s) |-> s[Len(s) + 1 - i]]

\* The caller of Fetch reorders the slice it got, in place, as
\* HeuristicClusterer.BuildClusters does with its argument.
CallerReorders(r) ==
    /\ conc.called
    /\ r \in 1..Len(conc.returned)
    /\ ~conc.returned[r].reordered
    /\ conc.returned[r].slice.len >= 2
    /\ LET slice == conc.returned[r].slice
           turned == Reverse(Deref(conc.mem, slice))
       IN conc' = [conc EXCEPT
                     !.mem[slice.arr] = turned \o SubSeq(@, slice.len + 1, Len(@)),
                     !.returned[r].value = turned,
                     !.returned[r].reordered = TRUE]
    /\ UNCHANGED notConcVars

ConcArmed ==
    \E s \in ConcStores :
       conc = [called |-> TRUE,
               mem |-> <<s.content \o NewArray(s.cap - Len(s.content))>>,
               store |-> IF s.cap = 0 THEN NilSlice ELSE [arr |-> 1, len |-> Len(s.content)],
               lock |-> [writer |-> "none", readers |-> {}],
               committed |-> s.content,
               calls |-> 0,
               procs |-> [g \in Goroutines |-> IdleFrame],
               returned |-> <<>>]

InitConc ==
    /\ StoreNew
    /\ HeurIdle /\ LLMIdle /\ CacheIdle /\ ScoreIdle /\ PipeIdle
    /\ http = [called |-> FALSE]
    /\ sim = [called |-> FALSE]
    /\ dec = [called |-> FALSE]
    /\ ConcArmed

NextConc ==
    \E g \in Goroutines :
       \/ \E w \in ConcWindows : FetchCall(g, FALSE, w[1], w[2])
       \/ FetchCall(g, TRUE, 1, 3)
       \/ FetchRLock(g)
       \/ FetchCopy(g)
       \/ FetchReturn(g)
       \/ \E item \in ConcAddInputs : AddCall(g, item)
       \/ AddLock(g)
       \/ AddWrite(g)
       \/ AddWriteRest(g)
       \/ AddUnlock(g)
       \/ \E ts \in ConcPruneBounds : PruneCall(g, ts)
       \/ PruneLock(g)
       \/ PruneStep(g)
       \/ PruneUnlock(g)
       \/ \E r \in 1..MaxCalls : CallerReorders(r)

SpecConc == InitConc /\ [][NextConc]_vars

-----------------------------------------------------------------------------
(* decodeNewsItems: the records of a source file *)

MaxRecords == 2

notDecVars == <<storeVars, heur, llm, cacheVars, score, pipe, http, sim, conc>>

rawNewsItem(id, headline, url, publishedAt) ==
    [ID |-> id, Headline |-> headline, Source |-> "Reuters", URL |-> url,
     Language |-> "en", PublishedAt |-> publishedAt, Tickers |-> <<"cma", " ", "CMA">>,
     Entities |-> <<" Acme ">>]

RawPool ==
    {rawNewsItem(id, headline, url, at) :
        id \in {"r1", "r2"},
        headline \in {<<>>, <<"Fed", "Cuts", "Rates">>},
        url \in {"", "http://1"},
        at \in {"2025-10-03T02:00:00Z", "2025-10-03T04:00:00+01:00", "yesterday", ""}}

\* A file: a JSON array of records, or bytes json.Decoder rejects (not an
\* array of objects, or an object with a field rawNewsItem does not have).
Files ==
    {[kind |-> "array", raws |-> raws] : raws \in SeqsUpTo(RawPool, MaxRecords)}
    \cup {[kind |-> "malformed", raws |-> <<>>], [kind |-> "unknown-field", raws |-> <<>>]}

\* dedupeStrings of package radar
dedupeStrings(values) ==
    IF Len(values) <= 1 THEN values ELSE dedupeFrom(values, {})

\* The NewsItem decodeNewsItems builds from a record and its parsed time.
decodedItem(r, published) ==
    NewsItem(r.ID, r.Headline, r.Source, r.URL, r.Language, published,
             dedupeStrings(r.Tickers), dedupeStrings(r.Entities), 0, "")

DecodeResult(out, err) == [out |-> out, err |-> err]

RECURSIVE decodeLoopParsesFirst(_, _)
decodeLoopParsesFirst(raws, decoded) ==
    IF raws = <<>> THEN DecodeResult(decoded, "")
    ELSE LET r == Head(raws)
             published == timeParse(r.PublishedAt)
         IN IF ~published.ok THEN DecodeResult(<<>>, "parse time")
            ELSE IF r.Headline = <<>> \/ r.URL = ""
            THEN decodeLoopParsesFirst(Tail(raws), decoded)
            ELSE decodeLoopParsesFirst(Tail(raws), Append(decoded, decodedItem(r, published.t)))

\* The loop over the decoded records.
RECURSIVE decodeLoop(_, _)
decodeLoop(raws, decoded) ==
    IF raws = <<>> THEN DecodeResult(decoded, "")
    ELSE LET r == Head(raws)
             published == timeParse(r.PublishedAt)
         IN IF r.Headline = <<>> \/ r.URL = "" THEN decodeLoop(Tail(raws), decoded)
            ELSE IF ~published.ok THEN DecodeResult(<<>>, "parse time")
            ELSE decodeLoop(Tail(raws), Append(decoded, decodedItem(r, published.t)))

decodeNewsItems(file) ==
    IF file.kind # "array" THEN DecodeResult(<<>>, "decode JSON")
    ELSE decodeLoop(file.raws, <<>>)

DecodeCall(file, returned, res) ==
    [called |-> TRUE, returned |-> returned, file |-> file, res |-> res]

\* decodeNewsItems is called with the file's bytes.
DecodeNewsItems ==
    /\ dec.called
    /\ ~dec.returned
    /\ dec' = DecodeCall(dec.file, TRUE, decodeNewsItems(dec.file))
    /\ UNCHANGED notDecVars

DecArmed == \E file \in Files : dec = DecodeCall(file, FALSE, DecodeResult(<<>>, ""))

InitDec ==
    /\ StoreNew
    /\ HeurIdle /\ LLMIdle /\ CacheIdle /\ ScoreIdle /\ PipeIdle
    /\ http = [called |-> FALSE]
    /\ sim = [called |-> FALSE]
    /\ conc = [called |-> FALSE]
    /\ DecArmed

NextDec == DecodeNewsItems

SpecDec == InitDec /\ [][NextDec]_vars

-----------------------------------------------------------------------------
(* Claims about the ingest store *)

UniqueIds(s) == \A i, j \in 1..Len(s) : s[i].ID = s[j].ID => i = j

\* C6: after any sequence of Add and PruneOlderThan calls the store holds no
\* two records with the same id; an Add whose id is already stored overwrites
\* that record in place (same position, same size), and an Add with a new id
\* appends exactly one record.
C6_AddReplacesById ==
    [][/\ UniqueIds(items')
       /\ lastOp'.op = "Add" =>
            IF \E i \in 1..Len(items) : items[i].ID = lastOp'.item.ID
            THEN /\ Len(items') = Len(items)
                 /\ \A i \in 1..Len(items) :
                       items'[i] = IF items[i].ID = lastOp'.item.ID
                                   THEN lastOp'.item ELSE items[i]
            ELSE /\ Len(items') = Len(items) + 1
                 /\ items' = items \o <<lastOp'.item>>]_vars

\* An Add has just overwritten the first of two stored records.
C6_Witness ==
    /\ lastOp.op = "Add"
    /\ lastOp.replaced
    /\ Len(items) = 2
    /\ items[1] = lastOp.item

\* C7 as claimed: once Add has stored a record with id X and timestamp T, and
\* nothing has touched X since, Fetch over [T, T] returns that one record and
\* nothing else.
C7_FetchReturnsOnlyThatRecord ==
    (lastOp.op = "Fetch" /\ ~lastOp.ctxDone /\ lastOp.from = lastOp.to) =>
        \A r \in live : r.PublishedAt = lastOp.from => lastOp.ret = <<r>>

\* C7 as amended: Fetch over [T, T] returns the stored records whose timestamp
\* is T; the record last added for id X is among them exactly once and is the
\* only one with id X; it is the whole result when no other stored record has
\* timestamp T.
C7_FetchReturnsThatRecord ==
    (lastOp.op = "Fetch" /\ ~lastOp.ctxDone /\ lastOp.from = lastOp.to) =>
        \A r \in live : r.PublishedAt = lastOp.from =>
            /\ Count(lastOp.ret, r) = 1
            /\ \A k \in 1..Len(lastOp.ret) :
                  /\ lastOp.ret[k].PublishedAt = lastOp.from
                  /\ lastOp.ret[k].ID = r.ID => lastOp.ret[k] = r
            /\ (\A i \in 1..Len(items) :
                   items[i].PublishedAt = r.PublishedAt => items[i] = r)
               => lastOp.ret = <<r>>

\* Fetch over [T, T] has returned the record added for an id while another
\* record, with another timestamp, is stored too.
C7_Witness ==
    /\ lastOp.op = "Fetch" /\ ~lastOp.ctxDone /\ lastOp.from = lastOp.to
    /\ Len(items) = 2
    /\ \E r \in live : r.PublishedAt = lastOp.from /\ lastOp.ret = <<r>>

\* C8: Fetch(from, to) with a live context returns exactly the stored items
\* whose timestamp t satisfies from <= t <= to, each once, in non-decreasing
\* timestamp order.
C8_FetchWindowInclusiveSorted ==
    (lastOp.op = "Fetch" /\ ~lastOp.ctxDone) =>
        /\ ~lastOp.err
        /\ \A k \in 1..Len(lastOp.ret) :
              /\ lastOp.ret[k] \in Range(items)
              /\ lastOp.from <= lastOp.ret[k].PublishedAt
              /\ lastOp.ret[k].PublishedAt <= lastOp.to
        /\ \A i \in 1..Len(items) :
              (lastOp.from <= items[i].PublishedAt /\ items[i].PublishedAt <= lastOp.to)
                  => Count(lastOp.ret, items[i]) = 1
        /\ \A k \in 1..(Len(lastOp.ret) - 1) :
              lastOp.ret[k].PublishedAt <= lastOp.ret[k + 1].PublishedAt

\* Fetch has returned a record stamped exactly `to`, stored after a record it
\* returns first, with from < to.
C8_Witness ==
    /\ lastOp.op = "Fetch" /\ ~lastOp.ctxDone
    /\ lastOp.from < lastOp.to
    /\ Len(lastOp.ret) = 2
    /\ lastOp.ret[2].PublishedAt = lastOp.to
    /\ lastOp.ret[1].PublishedAt = lastOp.from
    /\ lastOp.ret[1] = items[2]

-----------------------------------------------------------------------------
(* Claims about the heuristic clusterer *)

RECURSIVE AllMembers(_)
AllMembers(clusters) ==
    IF clusters = <<>> THEN <<>>
    ELSE Head(clusters).Items \o AllMembers(Tail(clusters))

\* Every input item is a member of exactly one cluster: the clusters' members,
\* taken together, are the input items, each as often as the input holds it.
PartitionsInput(clusters, input) == SameBag(AllMembers(clusters), input)

HeurReturned == ~HeurIdle /\ heur.called

\* C1 as claimed: for every input and every HeuristicClusterer value,
\* BuildClusters puts each input item in exactly one cluster and no cluster
\* holds more than MaxClusterSize items.
C1_PartitionAndSizeAnyConfig ==
    HeurReturned =>
        /\ PartitionsInput(heur.out, heur.input)
        /\ \A k \in 1..Len(heur.out) : Len(heur.out[k].Items) <= heur.cfg.MaxClusterSize

\* C1 as amended: each input item is in exactly one cluster, for every
\* configuration; a cluster holds at most MaxClusterSize items when
\* MaxClusterSize >= 1, and exactly one item when MaxClusterSize < 1.
C1_PartitionAndSize ==
    HeurReturned =>
        /\ PartitionsInput(heur.out, heur.input)
        /\ \A k \in 1..Len(heur.out) :
              /\ Len(heur.out[k].Items) >= 1
              /\ Len(heur.out[k].Items) <= Max(heur.cfg.MaxClusterSize, 1)

\* The size limit has acted: a cluster is full, and a later cluster starts
\* with an item the full one would otherwise have taken.
C1_Witness ==
    /\ HeurReturned
    /\ heur.cfg.MaxClusterSize = 2
    /\ \E i, j \in 1..Len(heur.out) :
          /\ i < j
          /\ Len(heur.out[i].Items) = heur.cfg.MaxClusterSize
          /\ withinWindow(heur.out[i].StartTime, heur.out[i].EndTime,
                          heur.out[j].Items[1].PublishedAt, heur.cfg.TimeWindow)
          /\ clusterContainsRelated(heur.out[i], heur.out[j].Items[1],
                                    heur.cfg.SimilarityThreshold)

-----------------------------------------------------------------------------
(* Claims about the LLM clusterer *)

\* The LLM path of the call failed: the clusterer is misconfigured, the prompt
\* or the request failed, the response had no choices, no JSON object, no
\* decodable JSON, or no cluster with an id of the input.
LLMReturned == ~LLMIdle /\ llm.called

LLMPathFailed ==
    /\ LLMReturned
    /\ Len(llm.input) > 0
    /\ \/ llm.cfg.Client = "nil"
       \/ llm.cfg.Model = ""
       \/ llm.reply.kind # "json"
       \/ \A k \in 1..Len(llm.reply.clusters) :
             \A i \in 1..Len(llm.reply.clusters[k].NewsIDs) :
                \A j \in 1..Len(llm.input) :
                   llm.input[j].ID # llm.reply.clusters[k].NewsIDs[i]

\* C2 as claimed: whenever the LLM path fails on a non-empty input,
\* BuildClusters returns no error and exactly the clusters the fallback engine
\* produces for the complete original input.
C2_FailureAlwaysServedByFallback ==
    LLMPathFailed =>
        /\ llm.res.err = ""
        /\ llm.res.fbCalled
        /\ llm.res.fbInput = llm.input
        /\ llm.res.out = llm.res.fbOut

\* C2 as amended: when the LLM path fails and a Fallback is set whose
\* BuildClusters succeeds, BuildClusters returns no error and the fallback's
\* clusters for the complete input, which cover every input item; with no
\* Fallback it returns the LLM cause as its error and no clusters, and when
\* the fallback fails it returns that failure and no clusters.
C2_FailureServedByFallback ==
    LLMPathFailed =>
        /\ llm.cfg.Fallback.kind = "heuristic" =>
              /\ llm.res.err = ""
              /\ llm.res.fbCalled
              /\ llm.res.fbInput = llm.input
              /\ llm.res.out = llm.res.fbOut
              /\ PartitionsInput(llm.res.out, llm.input)
        /\ llm.cfg.Fallback.kind = "nil" =>
              /\ llm.res.err = "cause"
              /\ ~llm.res.fbCalled
              /\ llm.res.out = <<>>
        /\ llm.cfg.Fallback.kind = "failing" =>
              /\ llm.res.err = "fallback"
              /\ llm.res.fbCalled
              /\ llm.res.fbInput = llm.input
              /\ llm.res.out = <<>>

\* A reply without a usable cluster, for an input longer than MaxItems: the
\* fallback's clusters cover the items beyond MaxItems too.
C2_Witness ==
    /\ LLMPathFailed
    /\ llm.cfg.Client = "set" /\ llm.cfg.Model # ""
    /\ llm.reply.kind = "json"
    /\ llm.cfg.MaxItems = 1
    /\ Len(llm.input) = 3
    /\ llm.res.err = ""
    /\ Len(AllMembers(llm.res.out)) = 3

\* The clusters the engine that was called has returned.
ReturnedClusters ==
    IF HeurReturned THEN heur.out
    ELSE IF LLMReturned THEN llm.res.out
    ELSE <<>>

\* C10: in every cluster either engine returns, StartTime is the least and
\* EndTime the greatest of the members' timestamps, and the members are in
\* non-decreasing timestamp order.
C10_ClusterTimes ==
    \A k \in 1..Len(ReturnedClusters) :
            LET cl == ReturnedClusters[k]
            IN /\ Len(cl.Items) >= 1
               /\ \A i \in 1..Len(cl.Items) :
                     /\ cl.StartTime <= cl.Items[i].PublishedAt
                     /\ cl.Items[i].PublishedAt <= cl.EndTime
               /\ \E i \in 1..Len(cl.Items) : cl.Items[i].PublishedAt = cl.StartTime
               /\ \E i \in 1..Len(cl.Items) : cl.Items[i].PublishedAt = cl.EndTime
               /\ cl.StartTime <= cl.EndTime
               /\ \A i \in 1..(Len(cl.Items) - 1) :
                     cl.Items[i].PublishedAt <= cl.Items[i + 1].PublishedAt

\* The LLM listed a later item before an earlier one, and the cluster built
\* from its reply spans the two.
C10_Witness ==
    /\ LLMReturned
    /\ ~llm.res.fbCalled
    /\ llm.res.err = ""
    /\ Len(llm.reply.clusters) >= 1
    /\ llm.reply.clusters[1].NewsIDs[1] = "n3"
    /\ Len(llm.res.out) >= 1
    /\ Len(llm.res.out[1].Items) = 2
    /\ llm.res.out[1].Items[2].ID = "n3"
    /\ llm.res.out[1].StartTime < llm.res.out[1].EndTime

-----------------------------------------------------------------------------
(* Claims about the signature cache of the LLM clusterer *)

\* The record of the first successful derivation for the signature sig.
DerivedBefore(sig) == \E r \in cacheHist : r.sig = sig

FirstDerivation(sig) == CHOOSE r \in cacheHist : r.sig = sig

-----------------------------------------------------------------------------
(* Claims about the scorer *)

ScoreReturned == ~ScoreIdle /\ score.called

\* The built events ScoreClusters keeps, in input order.
KeptEvents == SelectSeq(score.built, LAMBDA e : e.Hotness > 0)

C5_HotnessClampedAndRounded ==
    ScoreReturned =>
        \A i \in 1..Len(score.built) :
           /\ 0 <= score.built[i].Hotness
           /\ score.built[i].Hotness <= Unit
           /\ score.built[i].Hotness % 1000 = 0

\* One call built an event clamped to 1 and an event of a non-empty cluster
\* clamped to 0, under weights outside [0,1].
C5_Witness ==
    /\ ScoreReturned
    /\ \E w \in DOMAIN score.cfg.SourceWeights : score.cfg.SourceWeights[w] < 0
    /\ \E w \in DOMAIN score.cfg.TagWeights : score.cfg.TagWeights[w] > Unit
    /\ \E i, j \in 1..Len(score.built) :
          /\ score.built[i].Hotness = Unit
          /\ score.built[j].Hotness = 0
          /\ Len(score.clusters[j].Items) > 0

-----------------------------------------------------------------------------
(* Claims about the pipeline *)

\* The last Run got as far as calling the clusterer.
ClustererReached == ~PipeIdle /\ pipe.called /\ pipe.res.reached

SameLanguage(item, lang) == ToLower(item.Language) = ToLower(lang)

\* C9: when Run is given a non-empty Language, every item handed to the
\* clusterer, every member of every cluster handed to the scorer and so every
\* source reference of every returned event belongs to an item whose language
\* equals Language ignoring case.
C9_LanguageFilter ==
    (ClustererReached /\ pipe.params.Language # "") =>
        /\ \A x \in Range(pipe.res.handed) : SameLanguage(x, pipe.params.Language)
        /\ \A c \in Range(pipe.res.clusters) :
              \A x \in Range(c.Items) : SameLanguage(x, pipe.params.Language)
        /\ \A e \in Range(pipe.res.events) :
              \A ref \in Range(e.Sources) :
                 \E x \in Range(pipe.res.fetched) :
                    /\ SourceRef(x) = ref
                    /\ SameLanguage(x, pipe.params.Language)

\* A Run with Language "EN" fetched items of other languages too and returned
\* an event built from the item whose language is "en" and the one whose
\* language is "EN".
C9_Witness ==
    /\ ClustererReached
    /\ pipe.params.Language = "EN"
    /\ \E x \in Range(pipe.res.fetched) : ~SameLanguage(x, "EN")
    /\ \E x, y \in Range(pipe.res.handed) : x.Language = "en" /\ y.Language = "EN"
    /\ Len(pipe.res.events) > 0

-----------------------------------------------------------------------------
(* Claims about the primary and the members of the returned clusters *)

IDsOf(s) == {s[i].ID : i \in 1..Len(s)}

\* C11: in every cluster either engine returns, the primary is one of the
\* cluster's members (an item of Items with the primary's id).
C11_PrimaryIsMember ==
    \A k \in 1..Len(ReturnedClusters) :
       ReturnedClusters[k].Primary.ID \in IDsOf(ReturnedClusters[k].Items)

\* The call returned clusters parsed from the reply (no fallback, no error).
LLMSucceeded ==
    /\ LLMReturned
    /\ llm.res.err = ""
    /\ ~llm.res.fbCalled
    /\ Len(llm.input) > 0

\* The k-th element of the reply names at least one id of the input.
Usable(k) == clusterItems(llm.reply.clusters[k].NewsIDs, llm.input) # <<>>

\* The returned cluster built from the k-th element of the reply.
ClusterFor(k) == llm.res.out[Cardinality({j \in 1..k : Usable(j)})]

EarliestTime(members) ==
    CHOOSE t \in {members[i].PublishedAt : i \in 1..Len(members)} :
       \A i \in 1..Len(members) : t <= members[i].PublishedAt

\* C12: the primary of a parsed cluster is the item primary_news_id names when
\* that id is present and known, and otherwise a member with the earliest
\* timestamp, in whatever order news_ids lists the members.
C12_PrimaryNamedOrEarliest ==
    LLMSucceeded =>
        \A k \in 1..Len(llm.reply.clusters) :
           Usable(k) =>
              LET d == llm.reply.clusters[k]
                  cl == ClusterFor(k)
              IN IF d.PrimaryNewsID # "" /\ HasID(llm.input, d.PrimaryNewsID)
                 THEN cl.Primary.ID = d.PrimaryNewsID
                 ELSE /\ cl.Primary.ID \in IDsOf(cl.Items)
                      /\ cl.Primary.PublishedAt = EarliestTime(cl.Items)

\* C13: on the LLM success path every member of every returned cluster is an
\* item of the BuildClusters input, and no returned cluster is empty.
C13_MembersFromInput ==
    LLMSucceeded =>
        \A k \in 1..Len(llm.res.out) :
           /\ Len(llm.res.out[k].Items) >= 1
           /\ \A x \in Range(llm.res.out[k].Items) : x \in Range(llm.input)

\* The reply listed an id the input lacks next to a known one, and a cluster of
\* unknown ids only: one cluster with one member came back.
C13_Witness ==
    /\ LLMSucceeded
    /\ Len(llm.reply.clusters) = 2
    /\ \E k \in 1..2 :
          /\ Usable(k)
          /\ "zz" \in Range(llm.reply.clusters[k].NewsIDs)
    /\ \E k \in 1..2 : ~Usable(k) /\ Len(llm.reply.clusters[k].NewsIDs) > 0
    /\ Len(llm.res.out) = 1
    /\ Len(llm.res.out[1].Items) = 1

\* C14: on the LLM success path no input item occurs twice among the members
\* of the returned clusters, neither within one cluster nor in two clusters.
C14_NoItemTwice ==
    LLMSucceeded =>
        LET all == AllMembers(llm.res.out)
        IN \A i, j \in 1..Len(all) : all[i].ID = all[j].ID => i = j

-----------------------------------------------------------------------------
(* Claims about the errors and the stages of Pipeline.Run *)

RunReturned == ~PipeIdle /\ pipe.called

FallbackKind ==
    IF pipe.cfg.Clusterer.kind = "llm" THEN pipe.cfg.Clusterer.cfg.Fallback.kind
    ELSE "none"

\* C15 as stated: Run returns an error only when a source fetch failed or the
\* fallback engine failed, the latter reporting both causes; an LLM-side
\* failure never reaches the caller, whatever the Fallback.
C15_OnlyFetchOrFallbackErrors ==
    (RunReturned /\ pipe.res.err # "") =>
        \/ pipe.res.err = "fetch" /\ ~pipe.res.reached
        \/ /\ pipe.res.err = "fallback"
           /\ FallbackKind = "failing"
           /\ pipe.res.wraps = {"fbErr", "cause"}

\* C15: Run returns an error only when a source fetch failed, when the
\* fallback engine failed (reported with the fallback's error and the LLM
\* cause), or when the LLM side failed and no Fallback is set (the LLM cause
\* itself); with a Fallback that succeeds an LLM-side failure yields events
\* and no error.
C15_RunErrors ==
    RunReturned =>
        /\ pipe.res.err \in {"", "fetch", "fallback", "cause"}
        /\ pipe.res.err = "fetch" => ~pipe.res.reached
        /\ pipe.res.err = "fallback" =>
              /\ FallbackKind = "failing"
              /\ pipe.res.llmFailed
              /\ pipe.res.wraps = {"fbErr", "cause"}
        /\ pipe.res.err = "cause" =>
              /\ FallbackKind = "nil"
              /\ pipe.res.llmFailed
              /\ pipe.res.wraps = {"cause"}
        /\ (pipe.res.reached /\ FallbackKind \in {"none", "heuristic"}) => pipe.res.err = ""
        /\ pipe.res.err # "" => pipe.res.events = <<>>

\* The upstream request failed, the fallback clustered the items, and Run
\* returned events and no error.
C15_Witness ==
    /\ RunReturned
    /\ FallbackKind = "heuristic"
    /\ pipe.cfg.Clusterer.reply.kind = "error"
    /\ pipe.res.llmFailed
    /\ pipe.res.err = ""
    /\ Len(pipe.res.events) > 0

\* C16: when the context is cancelled on entry, Run returns an error that
\* carries the context's error and no events, without reaching the clusterer;
\* and Fetch of every registered source, a StaticFileSource or an
\* IngestSource, returns the context's error and no items.
C16_CancelledOnEntry ==
    (RunReturned /\ pipe.ctxDone) =>
        /\ pipe.res.err = "fetch"
        /\ pipe.res.wraps = {"ctx"}
        /\ pipe.res.events = <<>>
        /\ ~pipe.res.reached
        /\ pipe.res.sourcesCalled = <<pipe.cfg.Sources[1].name>>
        /\ \A i \in 1..Len(pipe.cfg.Sources) :
              SourceFetch(pipe.cfg.Sources[i], TRUE, pipe.params.From, pipe.params.To)
                 = {FetchResult(<<>>, "ctx")}

\* Run was called with a cancelled context on a registry whose first source is
\* the ingest store and whose second is a file, both holding items of the
\* requested window.
C16_Witness ==
    /\ RunReturned
    /\ pipe.ctxDone
    /\ Len(pipe.cfg.Sources) = 2
    /\ pipe.cfg.Sources[1].kind = "ingest"
    /\ pipe.cfg.Sources[2].kind = "static"
    /\ \A i \in 1..2 :
          \E x \in Range(pipe.cfg.Sources[i].decoded) :
             pipe.params.From <= x.PublishedAt /\ x.PublishedAt <= pipe.params.To
    /\ pipe.res.err = "fetch"

\* C17: when the context is cancelled once the fetch stage has returned, the
\* clustering stage aborts and Run returns the context's error and no events,
\* with the heuristic engine and with the LLM engine that has a fallback.
C17_CancelledBeforeClustering ==
    (/\ RunReturned
     /\ ~pipe.ctxDone
     /\ pipe.ctxLater
     /\ pipe.res.reached
     /\ FallbackKind \in {"none", "heuristic"}) =>
        /\ pipe.res.err # ""
        /\ "ctx" \in pipe.res.wraps
        /\ pipe.res.events = <<>>

\* The sequences made of one element of each set of parts, in order.
RECURSIVE Concatenations(_)
Concatenations(parts) ==
    IF parts = <<>> THEN {<<>>}
    ELSE {a \o b : a \in Head(parts), b \in Concatenations(Tail(parts))}

\* What Fetch of the i-th registered source can return in the last Run.
FetchOf(i) ==
    SourceFetch(pipe.cfg.Sources[i], pipe.ctxDone, pipe.params.From, pipe.params.To)

\* C18: FetchAll calls the sources in registration order; when source k is
\* the first to fail it returns that error under source k's name and no items,
\* and calls no source after k; when none fails it returns the sources' items
\* concatenated in registration order.
C18_FetchAllInOrder ==
    RunReturned =>
        LET srcs == pipe.cfg.Sources
            called == pipe.res.sourcesCalled
            n == Len(called)
        IN /\ n <= Len(srcs)
           /\ \A i \in 1..n : called[i] = srcs[i].name
           /\ \A i \in 1..(n - 1) : \A r \in FetchOf(i) : r.err = ""
           /\ IF pipe.res.err = "fetch"
              THEN /\ n >= 1
                   /\ \A r \in FetchOf(n) : r.err # "" /\ pipe.res.wraps = {r.err}
                   /\ pipe.res.errSource = srcs[n].name
                   /\ pipe.res.fetched = <<>>
                   /\ pipe.res.events = <<>>
              ELSE /\ n = Len(srcs)
                   /\ \A r \in FetchOf(n) : r.err = ""
                   /\ pipe.res.fetched \in
                         Concatenations([i \in 1..n |-> {r.items : r \in FetchOf(i)}])

\* The second of three sources failed after the first had returned items: the
\* third was not called and nothing was returned.
C18_Witness ==
    /\ RunReturned
    /\ Len(pipe.cfg.Sources) = 3
    /\ \E r \in FetchOf(1) : Len(r.items) > 0
    /\ pipe.res.sourcesCalled = <<"file", "broken">>
    /\ pipe.res.errSource = "broken"
    /\ pipe.res.err = "fetch"
    /\ pipe.res.fetched = <<>>

\* C19: Run returns the first min(L, n) of the n events the scorer ranked,
\* where L is Limit when Limit > 0 and 5 otherwise; no event left out is
\* hotter than a returned one.
C19_TopLimit ==
    (RunReturned /\ pipe.res.err = "") =>
        LET L == IF pipe.params.Limit > 0 THEN pipe.params.Limit ELSE 5
            n == Len(pipe.res.scored)
            m == Len(pipe.res.events)
        IN /\ pipe.res.scored \in ScoreClusters(pipe.cfg.Scorer, pipe.res.clusters)
           /\ m = Min(L, n)
           /\ \A i \in 1..m : pipe.res.events[i] = pipe.res.scored[i]
           /\ \A i \in 1..m, j \in (m + 1)..n :
                 pipe.res.scored[j].Hotness <= pipe.res.events[i].Hotness

\* A negative Limit and six scored events: the five hottest came back.
C19_Witness ==
    /\ RunReturned
    /\ pipe.res.err = ""
    /\ pipe.params.Limit < 0
    /\ Len(pipe.res.scored) = 6
    /\ Len(pipe.res.events) = 5
    /\ pipe.res.scored[6].Hotness < pipe.res.events[5].Hotness

-----------------------------------------------------------------------------
(* Claims about the timeline *)

EntryOf(item) == [Source |-> item.Source, URL |-> item.URL, Timestamp |-> item.PublishedAt]

Unlabelled(entry) ==
    [Source |-> entry.Source, URL |-> entry.URL, Timestamp |-> entry.Timestamp]

\* C20: the timeline of a non-empty cluster has one entry per member, in
\* non-decreasing timestamp order; the first is labelled Initial, the last of
\* two or more Latest, and the k-th between them Update k, k from 1.
C20_TimelineLabels ==
    ScoreReturned =>
        \A c \in 1..Len(score.clusters) :
           LET members == score.clusters[c].Items
               tl == score.built[c].Timeline
               n == Len(members)
           IN n > 0 =>
                 /\ Len(tl) = n
                 /\ SameBag([i \in 1..n |-> Unlabelled(tl[i])],
                            [i \in 1..n |-> EntryOf(members[i])])
                 /\ \A i \in 1..(n - 1) : tl[i].Timestamp <= tl[i + 1].Timestamp
                 /\ tl[1].Label = <<"Initial", "/", "Start">>
                 /\ n >= 2 => tl[n].Label = <<"Latest", "/", "Final">>
                 /\ \A k \in 1..(n - 2) :
                       tl[k + 1].Label = <<"Update", Itoa(k), "/", "Obnovlenie", Itoa(k)>>

\* One call built the timelines of a cluster of four members given out of
\* timestamp order (Initial, Update 1, Update 2, Latest), of a cluster of two
\* and of a cluster of one.
C20_Witness ==
    /\ ScoreReturned
    /\ \E c \in 1..Len(score.clusters) :
          /\ Len(score.clusters[c].Items) = 4
          /\ score.clusters[c].Items[1].PublishedAt > score.clusters[c].Items[2].PublishedAt
          /\ score.built[c].Timeline[3].Label = <<"Update", "2", "/", "Obnovlenie", "2">>
          /\ score.built[c].Timeline[4].Timestamp = score.clusters[c].Items[1].PublishedAt
    /\ \E c \in 1..Len(score.clusters) :
          /\ Len(score.clusters[c].Items) = 2
          /\ Len(score.built[c].Timeline) = 2

-----------------------------------------------------------------------------
(* Claims about the tickers, entities and sources of an event *)

AllTickersOf(members) == Flatten([i \in 1..Len(members) |-> members[i].Tickers])

AllEntitiesOf(members) == Flatten([i \in 1..Len(members) |-> members[i].Entities])

NoDuplicates(s) == \A i, j \in 1..Len(s) : s[i] = s[j] => i = j

SortedStrings(s) == \A i \in 1..(Len(s) - 1) : ~StringLess(s[i + 1], s[i])

\* The members' entities in first-seen order: an entity stays when no earlier
\* one equals it ignoring case and surrounding blanks.
FirstSeenEntities(members) ==
    LET all == AllEntitiesOf(members)
    IN SelectSeqAt(all, {i \in 1..Len(all) :
                            \A j \in 1..(i - 1) :
                               normalizeEntity(all[j]) # normalizeEntity(all[i])})

TickersAsClaimed(e, members) ==
    /\ Range(e.Tickers) = {ToUpper(t) : t \in Range(AllTickersOf(members))}
    /\ NoDuplicates(e.Tickers)
    /\ SortedStrings(e.Tickers)

SourcesAsClaimed(e, members) ==
    /\ Len(e.Sources) = Len(members)
    /\ \A i \in 1..Len(members) : e.Sources[i] = SourceRef(members[i])

-----------------------------------------------------------------------------
(* Claims about the ids of the items of one Run *)

\* C22: within one Run, no two items handed to the clusterer have the same id,
\* whatever sources are registered.
C22_HandedIdsDistinct ==
    ClustererReached =>
        \A i, j \in 1..Len(pipe.res.handed) :
           pipe.res.handed[i].ID = pipe.res.handed[j].ID => i = j

-----------------------------------------------------------------------------
(* Claims about the ingest round trip through the server *)

\* A GET /radar, with a live request context, whose window contains the time
\* of the record the last accepted POST /news stored, whose lang does not
\* exclude it and whose limit cuts no event off.
RadarCovers ==
    /\ http.called
    /\ http.req.kind = "radar"
    /\ http.accepted # NoItem
    /\ http.params.From <= http.accepted.PublishedAt
    /\ http.accepted.PublishedAt <= http.params.To
    /\ (http.params.Language = ""
        \/ ToLower(http.params.Language) = ToLower(http.accepted.Language))
    /\ Len(http.run.events) = Len(http.run.scored)

\* The response is a 200 with an event of a cluster holding the accepted
\* record: the event lists the record as a source and, when the record
\* carries the ticker cma, lists CMA once and cma not at all.
RadarIncludesAccepted ==
    /\ http.status = 200
    /\ \E e \in Range(http.run.events), c \in Range(http.run.clusters) :
          /\ e.DedupGroup = c.ID
          /\ http.accepted \in Range(c.Items)
          /\ SourceRef(http.accepted) \in Range(e.Sources)
          /\ "cma" \in Range(http.accepted.Tickers) =>
                Count(e.Tickers, "CMA") = 1 /\ Count(e.Tickers, "cma") = 0

RejectedLeavesStore ==
    (http.called /\ http.req.kind = "ingest" /\ http.status \in 400..499) =>
        items = http.before

\* C23 as stated: after an accepted POST /news, a GET /radar covering the item
\* (read: one that is answered 200) returns an event that lists it, with the
\* tickers cma, CMA as the single CMA, whatever engine the pipeline runs; a
\* POST rejected with a 4xx leaves the store unchanged.
C23_IngestRoundTrip ==
    /\ (RadarCovers /\ http.status = 200) => RadarIncludesAccepted
    /\ RejectedLeavesStore

\* The clusters of the Run were built by the heuristic engine: it is the
\* pipeline's engine, or the LLM path failed and fell back to it.
ClusteredByHeuristic ==
    http.cfg.clusterer.kind = "heuristic" \/ http.run.llmFailed

\* C23: after an accepted POST /news, a GET /radar covering the item that is
\* answered 200 from clusters the heuristic engine built returns an event
\* that lists the item, with the tickers cma, CMA as the single CMA; a POST
\* rejected with a 4xx leaves the store unchanged.
C23_IngestRoundTripHeuristic ==
    /\ (RadarCovers /\ http.status = 200 /\ ClusteredByHeuristic) => RadarIncludesAccepted
    /\ RejectedLeavesStore

\* A POST with the tickers cma, CMA and a zone offset was accepted, a later
\* POST was rejected for its timestamp, and the GET /radar that followed
\* lists the stored record under the single ticker CMA.
C23_Witness ==
    /\ RadarCovers
    /\ http.status = 200
    /\ ClusteredByHeuristic
    /\ http.accepted.Tickers = <<"cma">>
    /\ http.accepted.PublishedAt = 3
    /\ http.accepted.ID = "u1"
    /\ RadarIncludesAccepted

\* A POST /news was rejected with 400 while the store held a record.
C23_RejectWitness ==
    /\ http.called
    /\ http.req.kind = "ingest"
    /\ http.status = 400
    /\ Len(items) > 0

-----------------------------------------------------------------------------
(* Claims about similarityScore *)

\* C24: similarityScore is symmetric and lies in [0, 1]; it is 0 when either
\* headline has no token, and a headline with a token scores 1 against itself.
C24_SimilarityScore ==
    sim.called =>
        /\ sim.score = sim.swapped
        /\ 0 <= sim.score /\ sim.score <= Unit
        /\ (tokenize(sim.a) = <<>> \/ tokenize(sim.b) = <<>>) => sim.score = 0
        /\ (sim.a = sim.b /\ tokenize(sim.a) # <<>>) => sim.score = Unit

\* A headline that repeats a token was compared with itself and scored 1.
C24_Witness ==
    /\ sim.called
    /\ sim.a = <<"Fed", "fed">>
    /\ sim.b = sim.a
    /\ tokenize(sim.a) = <<"fed", "fed">>
    /\ sim.score = Unit

\* Two headlines with the token sets {fed, acme} and {fed} scored a half.
C24_PartialWitness ==
    /\ sim.called
    /\ sim.a = <<"Fed", "Acme">>
    /\ sim.b = <<"fed", "to">>
    /\ sim.score = 500000

-----------------------------------------------------------------------------
(* Claims about the heuristic engine's assignment rule *)

\* The positions before p that the assignment gives to cluster j.
EarlierOf(assign, j, p) == {q \in 1..(p - 1) : assign[q] = j}

\* The three conditions of the rule for the item at position p and the
\* members cluster j has when that item is processed.
TakenBy(order, assign, j, p, c) ==
    LET members == EarlierOf(assign, j, p)
        times == {order[q].PublishedAt : q \in members}
    IN /\ members # {}
       /\ Cardinality(members) < c.MaxClusterSize
       /\ \E start \in times : /\ \A u \in times : start <= u
                               /\ order[p].PublishedAt >= start - c.TimeWindow
       /\ \E end \in times : /\ \A u \in times : u <= end
                             /\ order[p].PublishedAt <= end + c.TimeWindow
       /\ \E q \in members : areRelated(order[q], order[p], c.SimilarityThreshold)

\* The clusters are what the rule yields when the items are processed in the
\* given order: assign[p] is the cluster of the p-th item.
FollowsRule(clusters, order, assign, c) ==
    /\ \A k \in 1..Len(clusters) :
          /\ clusters[k].Items = SelectSeqAt(order, {p \in 1..Len(order) : assign[p] = k})
          /\ clusters[k].Items # <<>>
          /\ clusters[k].Primary = clusters[k].Items[1]
    /\ \A j, k \in 1..Len(clusters) :
          j < k => \E p \in 1..Len(order) :
                      /\ assign[p] = j
                      /\ \A q \in 1..Len(order) : assign[q] = k => p < q
    /\ \A p \in 1..Len(order) :
          IF \E j \in 1..Len(clusters) : TakenBy(order, assign, j, p, c)
          THEN /\ TakenBy(order, assign, assign[p], p, c)
               /\ \A j \in 1..(assign[p] - 1) : ~TakenBy(order, assign, j, p, c)
          ELSE EarlierOf(assign, assign[p], p) = {}

\* C25: BuildClusters processes the items in ascending timestamp order and
\* gives each to the first cluster, in creation order, that has fewer than
\* MaxClusterSize members, whose interval widened by TimeWindow on both sides
\* (bounds included) holds the item's timestamp and that has a related member;
\* an item no cluster takes opens a new cluster and is its primary.
C25_FirstFitAssignment ==
    HeurReturned =>
        \E order \in Orderings(heur.input) :
           /\ IsSortedByTime(order)
           /\ \E assign \in [1..Len(order) -> 1..Len(heur.out)] :
                 FollowsRule(heur.out, order, assign, heur.cfg)

\* An item joined the first cluster from the very edge of its window, and an
\* item inside that cluster's window but related to none of its members
\* opened the next cluster.
C25_Witness ==
    /\ HeurReturned
    /\ heur.cfg.TimeWindow = 1
    /\ heur.cfg.MaxClusterSize = 2
    /\ Len(heur.out) = 2
    /\ Len(heur.out[1].Items) = 2
    /\ heur.out[1].Items[2].PublishedAt = heur.out[1].Items[1].PublishedAt + 1
    /\ heur.out[2].Items[1].PublishedAt = heur.out[1].EndTime + 1
    /\ ~clusterContainsRelated(heur.out[1], heur.out[2].Items[1],
                               heur.cfg.SimilarityThreshold)

-----------------------------------------------------------------------------
(* Claims about pruning the ingest store *)

\* C26: PruneOlderThan(ts) removes exactly the records whose timestamp is
\* strictly before ts and returns how many they were; the other records stay,
\* unchanged and in the same relative order.
C26_PruneRemovesStrictlyOlder ==
    [][lastOp'.op = "Prune" =>
          LET ts == lastOp'.from
              older == {i \in 1..Len(items) : items[i].PublishedAt < ts}
          IN /\ items' = SelectSeqAt(items, (1..Len(items)) \ older)
             /\ lastOp'.removed = Cardinality(older)]_vars

\* A prune removed the older of two records and kept the one published
\* exactly at the bound.
C26_Witness ==
    /\ lastOp.op = "Prune"
    /\ lastOp.removed = 1
    /\ Len(items) = 1
    /\ items[1].PublishedAt = lastOp.from

-----------------------------------------------------------------------------
(* Claims about concurrent calls on the ingest store *)

\* What Fetch may return for a store holding content.
FetchOutcomes(content, from, to) == SortSliceByTime(FetchFilter(content, from, to))

\* A returned Fetch gave the window-filtered contents the store had at some
\* instant of the call.
SnapshotOfOneInstant(r) ==
    \E content \in r.seen : r.fetched \in FetchOutcomes(content, r.from, r.to)

\* C27: under any interleaving of Fetch, Add and PruneOlderThan calls, each
\* Fetch returns the window-filtered contents the store had at one instant
\* between two mutating calls; the elements of a returned slice change only
\* when its holder changes them; and while no Add or PruneOlderThan is under
\* way the store holds what the calls so far, taken one at a time, leave,
\* whatever was done to the returned slices.
C27_FetchIsAtomicAndFresh ==
    conc.called =>
        /\ \A r \in Range(conc.returned) :
              /\ ~r.err => SnapshotOfOneInstant(r)
              /\ Deref(conc.mem, r.slice) = r.value
        /\ conc.lock.writer = "none" => Deref(conc.mem, conc.store) = conc.committed

\* A PruneOlderThan took effect while a Fetch over three records was under
\* way; the Fetch returned the two records left and its caller reversed the
\* slice; an Add then appended a record into the array the prune had
\* compacted.  The store holds the two records in their order, then the new one.
C27_Witness ==
    /\ conc.called
    /\ conc.calls = 3
    /\ conc.lock.writer = "none"
    /\ Len(conc.returned) = 1
    /\ Cardinality(conc.returned[1].seen) = 2
    /\ conc.returned[1].reordered
    /\ conc.returned[1].fetched = <<ConcItem("b", 2), ConcItem("c", 3)>>
    /\ Deref(conc.mem, conc.returned[1].slice) = <<ConcItem("c", 3), ConcItem("b", 2)>>
    /\ conc.committed = <<ConcItem("b", 2), ConcItem("c", 3), ConcItem("d", 2)>>

-----------------------------------------------------------------------------
(* Claims about the calls one LLMClusterer.BuildClusters makes *)

FallbackCalls == IF llm.res.fbCalled THEN 1 ELSE 0

\* C28: one BuildClusters call makes at most one upstream call and calls the
\* fallback at most once; for an empty input it makes no upstream call, calls
\* no fallback and returns no clusters and no error; with no client or no
\* model name it makes no upstream call.
C28_AtMostOneUpstreamCall ==
    LLMReturned =>
        /\ llm.res.upstream <= 1
        /\ FallbackCalls <= 1
        /\ Len(llm.input) = 0 =>
              /\ llm.res.upstream = 0
              /\ FallbackCalls = 0
              /\ llm.res.out = <<>>
              /\ llm.res.err = ""
        /\ (llm.cfg.Client = "nil" \/ llm.cfg.Model = "") => llm.res.upstream = 0

\* A clusterer without a model name was called with items: it made no
\* upstream call and returned the clusters of its fallback.
C28_Witness ==
    /\ LLMReturned
    /\ llm.cfg.Client = "set"
    /\ llm.cfg.Model = ""
    /\ Len(llm.input) = 2
    /\ llm.res.upstream = 0
    /\ llm.res.fbCalled
    /\ llm.res.err = ""
    /\ llm.res.out = llm.res.fbOut
    /\ Len(llm.res.out) > 0

\* A configured clusterer was called with no items: nothing was called.
C28_EmptyWitness ==
    /\ LLMReturned
    /\ llm.cfg.Client = "set" /\ llm.cfg.Model = "m"
    /\ Len(llm.input) = 0
    /\ llm.res.upstream = 0
    /\ ~llm.res.fbCalled

-----------------------------------------------------------------------------
(* Claims about decoding a source file *)

DecodeReturned == dec.called /\ dec.returned /\ dec.file.kind = "array"

Skipped(r) == r.Headline = <<>> \/ r.URL = ""

BadTime(r) == ~timeParse(r.PublishedAt).ok

\* The records that are not skipped, in file order, as items.
RemainingItems(raws) ==
    LET kept == SelectSeqAt(raws, {i \in 1..Len(raws) : ~Skipped(raws[i])})
    IN [i \in 1..Len(kept) |-> decodedItem(kept[i], timeParse(kept[i].PublishedAt).t)]

\* C29 as stated: the decode fails, returning no items, whenever any record of
\* the array has a published_at that is not RFC3339, a skipped record included;
\* otherwise it returns the records with a headline and a url, in file order.
C29_AnyBadTimeFails ==
    DecodeReturned =>
        IF \E i \in 1..Len(dec.file.raws) : BadTime(dec.file.raws[i])
        THEN dec.res.err # "" /\ dec.res.out = <<>>
        ELSE dec.res.err = "" /\ dec.res.out = RemainingItems(dec.file.raws)

\* C29: the decode fails, returning no items, exactly when a record that has a
\* headline and a url has a published_at that is not RFC3339; the timestamp of
\* a skipped record is not looked at.  Otherwise it returns the records with a
\* headline and a url, in file order.
C29_BadTimeOfKeptRecordFails ==
    DecodeReturned =>
        IF \E i \in 1..Len(dec.file.raws) :
              ~Skipped(dec.file.raws[i]) /\ BadTime(dec.file.raws[i])
        THEN dec.res.err # "" /\ dec.res.out = <<>>
        ELSE dec.res.err = "" /\ dec.res.out = RemainingItems(dec.file.raws)

\* A file of a record without a url and with an unparsable timestamp, then a
\* well-formed record: the decode succeeded and returned the second record.
C29_Witness ==
    /\ DecodeReturned
    /\ Len(dec.file.raws) = 2
    /\ Skipped(dec.file.raws[1]) /\ BadTime(dec.file.raws[1])
    /\ ~Skipped(dec.file.raws[2]) /\ ~BadTime(dec.file.raws[2])
    /\ dec.res.err = ""
    /\ Len(dec.res.out) = 1
    /\ dec.res.out[1].ID = dec.file.raws[2].ID
    /\ dec.res.out[1].Tickers = <<"cma">>

\* A file whose second record has a headline, a url and an unparsable
\* timestamp: the decode failed and returned nothing.
C29_FailWitness ==
    /\ DecodeReturned
    /\ Len(dec.file.raws) = 2
    /\ ~Skipped(dec.file.raws[1]) /\ ~BadTime(dec.file.raws[1])
    /\ ~Skipped(dec.file.raws[2]) /\ BadTime(dec.file.raws[2])
    /\ dec.res.err = "parse time"
    /\ dec.res.out = <<>>

-----------------------------------------------------------------------------
(* Claims about which clusters yield an event *)

\* The clusters of the call that have members and a built hotness above 0.
HotClusters ==
    {c \in 1..Len(score.clusters) :
        Len(score.clusters[c].Items) > 0 /\ score.built[c].Hotness > 0}

\* C30: ScoreClusters returns exactly one event for each cluster that has
\* members and a hotness above 0, carrying the cluster's id as DedupGroup and
\* its primary's headline, and no event for any other cluster; with the
\* default weights every cluster that has members yields an event.
C30_OneEventPerHotCluster ==
    ScoreReturned =>
        /\ Len(score.events) = Cardinality(HotClusters)
        /\ \E of \in [1..Len(score.events) -> HotClusters] :
              /\ \A i, j \in 1..Len(score.events) : of[i] = of[j] => i = j
              /\ \A i \in 1..Len(score.events) :
                    /\ score.events[i] = score.built[of[i]]
                    /\ score.events[i].DedupGroup = score.clusters[of[i]].ID
                    /\ score.events[i].Headline = score.clusters[of[i]].Primary.Headline
        /\ score.cfg = DefaultScorer =>
              HotClusters = {c \in 1..Len(score.clusters) : Len(score.clusters[c].Items) > 0}

\* Of two clusters with members, one scored 0 under weights below zero and
\* was dropped; the other is the one event returned.
C30_Witness ==
    /\ ScoreReturned
    /\ Len(score.clusters) = 2
    /\ \A c \in 1..2 : Len(score.clusters[c].Items) > 0
    /\ Cardinality(HotClusters) = 1
    /\ Len(score.events) = 1

\* The default scorer was given an empty cluster and a cluster with members
\* and returned the event of the second.
C30_DefaultWitness ==
    /\ ScoreReturned
    /\ score.cfg = DefaultScorer
    /\ Len(score.clusters) = 2
    /\ Len(score.clusters[1].Items) = 0
    /\ Len(score.clusters[2].Items) > 0
    /\ Len(score.events) = 1
    /\ score.events[1].DedupGroup = score.clusters[2].ID

=============================================================================
